---- MODULE Spec2Model ----
(***************************************************************************)
(* A model of the kasumi kernel core: the lock-free bitmap-tree page       *)
(* allocator (kernel_algo/src/mem/page_alloc.rs) and the B-tree ordered    *)
(* map (kernel/src/util/ordered_map).                                      *)
(***************************************************************************)
EXTENDS Integers, Sequences, FiniteSets, TLC

\* ------------------------------------------------------------------------
\* Program constants
\* ------------------------------------------------------------------------

\* page_alloc.rs: const ATOMIC_WORD_BITS: usize = 64
ATOMIC_WORD_BITS == 64

\* size_of::<AtomicWord>()
ATOMIC_WORD_BYTES == 8

\* TreeAlloc::MAX_HEIGHT
MAX_HEIGHT == 5

\* kernel_algo::mem::PAGE_SIZE
PAGE_SIZE == 4096

\* page_alloc::SMALL_PAGE_SIZE, SMALL_PAGE_ALIGN (0x1000)
SMALL_PAGE_SIZE == 4096

\* page_alloc::LARGE_PAGE_SIZE, LARGE_PAGE_ALIGN (0x200_000)
LARGE_PAGE_SIZE == 2097152

\* heap/chunk.rs: const CHUNKS_PER_HEAP_PAGE: usize = 511
CHUNKS_PER_HEAP_PAGE == 511

\* heap/mod.rs: POOL_256 is an ObjectPool<256>, so size_of::<Object<S>>() = 256
POOL_OBJ_SIZE == 256

\* ordered_map/mod.rs: const ORDER: usize = 8
ORDER == 8

\* ordered_map/mod.rs: const MIN_KEYS: usize = (ORDER + 1).div_ceil(2) - 1
MIN_KEYS == ((ORDER + 1) + 1) \div 2 - 1

\* ------------------------------------------------------------------------
\* Bounds of the model
\* ------------------------------------------------------------------------

\* Threads calling into one TreeAlloc.
NumThreads == 2
\* Calls (alloc or free) started in one concurrent run.
MaxCalls == 4
\* Pages of the initial fill that the threads of the run own and may free.
MaxInitHeld == 1
\* Pages of a full tree held by the callers of a run when it starts.
FullInitHeld == 2
\* Failed allocs after which the fill run stops calling alloc.
MaxNone == 2
\* OrderedMap calls (insert or remove) made in one run.
MaxMapOps == 3
\* mem::heap::update_slot_metadata calls made in one run.
MaxMetaCalls == 2
\* Calls into heap.rs (alloc_slot, free_slot, update_slot_metadata, a write
\* by a slot's owner) made in one run.
MaxSlotCalls == 5
\* ObjectPool calls (alloc or free) made in one run.
MaxPoolCalls == 7
\* Requests made in the mock pass of a BumpAlloc.
MaxBumpReqs == 2

Threads == 1..NumThreads

VARIABLES
    tree_len,   \* self.0.len(): number of words of the tree slice
    num_pages,  \* pages of the region the tree was sized for
    tree,       \* the words: bit b of word i is set iff i * 64 + b \in tree
    th,         \* per thread: position in alloc/free and its locals
    held,       \* pages returned by alloc for which free was not yet called
    live,       \* pages claimed by a leaf fetch_or, not yet cleared by free
    unfreed,    \* pages returned by alloc with no completed free since
    calls,      \* calls started
    n_ok,       \* allocs that returned Some
    n_none,     \* allocs that returned None
    before,     \* the tree when alloc was last called with no call running
    root,       \* OrderedMap.root: the tree of nodes
    shadow,     \* key -> the value of the most recent insert, None once removed
    map_panicked, \* an OrderedMap call panicked
    last_op,    \* the last OrderedMap call: its kind, key and return value
    map_ops,    \* OrderedMap calls made
    heap_mem,   \* heap page memory: the pairs <<address, word>> of the
                \* non-zero pointer-sized words (other addresses hold zero)
    free_chunk_list,  \* ChunkAlloc.free_chunk_list (0 is None)
    num_alloc_chunks, \* HeapPageHeader.num_alloc_chunks
    chunk_metadatas,  \* HeapPageHeader.chunk_metadatas: <<chunk_idx, word>>
    free_obj_list,    \* ObjectPool.free_obj_list (0 is None)
    objs_out,   \* objects returned by ObjectPool::alloc and not freed since
    chunks_taken, \* chunks chunk::alloc handed to the pool, in order
    pool_calls, \* ObjectPool calls made
    pool_last,  \* the last ObjectPool call
    heap_panicked, \* a heap call panicked
    init_pc,      \* position of heap::init, "none" in a run without it
    boot_page,    \* BOOTSTRAP_HEAP_PAGE_START and BOOTSTRAP_HEAP_PAGE_END
    pool_256,     \* heap/mod.rs POOL_256: Option<ObjectPool<256>>
    slot_bitmap,  \* mem/heap.rs ChunkHeader.slot_bitmap of the boot chunk:
                  \* bit b of word w is set iff w * 64 + b \in slot_bitmap
    num_occupied_slots, \* ChunkHeader.num_occupied_slots
    slot_metadata,      \* ChunkHeader.slot_metadata: <<index, word>> pairs
    slots_out,    \* slot pointers returned by mem::heap::alloc_slot
    bm_last,      \* the last mem::heap call
    bm_panicked,  \* a mem::heap call panicked
    bm_meta_calls, \* mem::heap::update_slot_metadata calls made
    slot_mem,     \* heap.rs: memory of the boot chunk's slots, the pairs
                  \* <<address, word>> of the non-zero words
    free_slot_list,  \* HeapAlloc.free_slot_list (0 is None)
    num_alloc_slots, \* ChunkHeader.num_alloc_slots
    slot_metadatas,  \* ChunkHeader.slot_metadatas: slot_idx -> non-zero pair
    slots_held,   \* slots returned by heap::alloc_slot and not freed since
    slot_calls,   \* heap calls made
    slot_last,    \* the last heap call
    slot_panicked, \* a heap call panicked
    heap_lock,    \* heap.rs HEAP_ALLOC spinlock: the thread holding it, or 0
    slot_th,      \* per thread: position in alloc_slot/free_slot, its
                  \* locals, and the slots it holds
    calc_len,     \* the region length given to calc_size_for
    calc_ret,     \* whether calc_size_for was called, and its result
    bump,         \* BumpAlloc: ptr and last_addr
    bump_pass,    \* the pass the BumpAlloc is in, the buffer, the
                  \* requests made and the pointer after each
    node_objs     \* objects heap::alloc returned for the Box of a map
                  \* node, not freed since (followed in runs of Box)

pa_vars == <<tree_len, num_pages, tree, th, held, live, unfreed, calls, n_ok, n_none,
            before>>

map_vars == <<root, shadow, map_panicked, last_op, map_ops>>

pool_vars == <<heap_mem, free_chunk_list, num_alloc_chunks, chunk_metadatas,
              free_obj_list, objs_out, chunks_taken, pool_calls, pool_last,
              heap_panicked, init_pc, boot_page, pool_256>>

bm_vars == <<slot_bitmap, num_occupied_slots, slot_metadata, slots_out,
            bm_last, bm_panicked, bm_meta_calls>>

slot_vars == <<slot_mem, free_slot_list, num_alloc_slots, slot_metadatas,
              slots_held, slot_calls, slot_last, slot_panicked>>

slot_th_vars == <<heap_lock, slot_th>>

heap_vars == <<pool_vars, bm_vars, slot_vars, slot_th_vars>>

calc_vars == <<calc_len, calc_ret>>

bump_vars == <<bump, bump_pass>>

box_vars == <<node_objs>>

setup_vars == <<calc_vars, bump_vars, box_vars>>

vars == <<tree_len, num_pages, tree, th, held, live, unfreed, calls, n_ok, n_none, before,
          root, shadow, map_panicked, last_op, map_ops,
          heap_mem, free_chunk_list, num_alloc_chunks, chunk_metadatas,
          free_obj_list, objs_out, chunks_taken, pool_calls, pool_last,
          heap_panicked, init_pc, boot_page, pool_256,
          slot_bitmap, num_occupied_slots, slot_metadata, slots_out,
          bm_last, bm_panicked, bm_meta_calls,
          slot_mem, free_slot_list, num_alloc_slots, slot_metadatas,
          slots_held, slot_calls, slot_last, slot_panicked,
          heap_lock, slot_th,
          calc_len, calc_ret, bump, bump_pass, node_objs>>

\* ------------------------------------------------------------------------
\* TreeAlloc: geometry
\* ------------------------------------------------------------------------

\* Option<usize>
None == [some |-> FALSE, val |-> 0]
Some(v) == [some |-> TRUE, val |-> v]

RECURSIVE ilog(_, _)
\* usize::ilog: floor of the logarithm
ilog(num, base) ==
    IF num < base THEN 0 ELSE 1 + ilog(num \div base, base)

total_words_from_leaf_words(num_leaf_words) ==
    (ATOMIC_WORD_BITS * num_leaf_words - 1) \div (ATOMIC_WORD_BITS - 1)

height_from_leaf_words(num_leaf_words) ==
    ilog(num_leaf_words, ATOMIC_WORD_BITS) + 1

leaf_words_from_total_words(num_total_words) ==
    ((ATOMIC_WORD_BITS - 1) * num_total_words + 1) \div ATOMIC_WORD_BITS

height_from_total_words(num_total_words) ==
    height_from_leaf_words(leaf_words_from_total_words(num_total_words))

\* tree_layer: the slice [offset, offset + len) of the flat tree
tree_layer(layer) ==
    [offset |-> (ATOMIC_WORD_BITS ^ layer - 1) \div (ATOMIC_WORD_BITS - 1),
     len    |-> ATOMIC_WORD_BITS ^ layer]

\* layer_slice.get(word_idx): the flat index of a word of a layer
word_at(layer, word_idx) == tree_layer(layer).offset + word_idx

\* ------------------------------------------------------------------------
\* TreeAlloc: atomic words.  A word value is the set of its set bits.
\* ------------------------------------------------------------------------

\* usize::div_ceil
div_ceil(a, b) == (a + b - 1) \div b

\* TreeAlloc::round_up_to_power that always takes the next power
round_up_to_next_power(num, base) == base ^ (ilog(num, base) + 1)

\* TreeAlloc::round_up_to_power (num >= 1; ilog panics on 0)
round_up_to_power(num, base) ==
    LET log == ilog(num, base)
    IN  IF base ^ log = num THEN num ELSE base ^ (log + 1)

\* TreeAlloc::calc_size_for from num_pages on
calc_size_for_pages(pages) ==
    LET num_leaf_words_unrounded == div_ceil(pages, ATOMIC_WORD_BITS)
        num_leaf_words == round_up_to_power(num_leaf_words_unrounded, ATOMIC_WORD_BITS)
    IN  IF height_from_leaf_words(num_leaf_words) > MAX_HEIGHT
        THEN None
        ELSE Some(total_words_from_leaf_words(num_leaf_words) * ATOMIC_WORD_BYTES)

\* TreeAlloc::calc_size_for: bytes of the tree for a region of len bytes
calc_size_for(len) == calc_size_for_pages(div_ceil(len, PAGE_SIZE))

\* TreeAlloc::calc_size_for of a length beyond 2^31, written as
\* len = <<q, r>> for q * PAGE_SIZE + r bytes with r < PAGE_SIZE:
\* len.div_ceil(PAGE_SIZE) is the quotient, plus one if r > 0
calc_size_for_wide(len) ==
    calc_size_for_pages(len[1] + (IF len[2] > 0 THEN 1 ELSE 0))

Bits == 0..(ATOMIC_WORD_BITS - 1)

\* ATOMIC_WORD_MAX
ATOMIC_WORD_MAX == Bits

\* word.load(Acquire)
load(tr, layer, word_idx) ==
    {b \in Bits : word_at(layer, word_idx) * ATOMIC_WORD_BITS + b \in tr}

\* The first zero bit sought from the top of the word
leading_zero_bit(word) ==
    IF word = ATOMIC_WORD_MAX
    THEN ATOMIC_WORD_BITS
    ELSE CHOOSE b \in Bits : b \notin word /\ \A c \in (b + 1)..(ATOMIC_WORD_BITS - 1) : c \in word

\* u64::trailing_ones
trailing_ones(word) ==
    IF word = ATOMIC_WORD_MAX THEN ATOMIC_WORD_BITS
    ELSE CHOOSE b \in Bits : b \notin word /\ \A c \in 0..(b - 1) : c \in word

\* word.fetch_or(1 << bit, AcqRel): the tree afterwards
fetch_or(tr, layer, word_idx, bit) ==
    tr \cup {word_at(layer, word_idx) * ATOMIC_WORD_BITS + bit}

\* fetch_and with the mask not negated: clears every other bit of the word
fetch_and_unnegated(tr, layer, word_idx, bit) ==
    tr \ {word_at(layer, word_idx) * ATOMIC_WORD_BITS + b : b \in Bits \ {bit}}

\* word.fetch_and(!(1 << bit), AcqRel): the tree afterwards
fetch_and(tr, layer, word_idx, bit) ==
    tr \ {word_at(layer, word_idx) * ATOMIC_WORD_BITS + bit}

\* The lost-race check left out
claim_lost_never(old, bit) == FALSE

\* old & (1 << leaf_bit_idx) != 0: another thread took the page first
claim_lost(old, bit) == bit \in old

\* The fullness test left out: the parent bit is set on every alloc
word_full_always(old, bit) == TRUE

\* The fullness test made on the old value alone
word_full_before(old, bit) == old = ATOMIC_WORD_MAX

\* old | (1 << bit) == ATOMIC_WORD_MAX
word_full_after(old, bit) == (old \cup {bit}) = ATOMIC_WORD_MAX

\* ------------------------------------------------------------------------
\* TreeAlloc: threads
\* ------------------------------------------------------------------------

Idle ==
    [pc |-> "idle", layer |-> 0, word_idx |-> 0, bit_idx |-> 0,
     leaf_word_idx |-> 0, leaf_bit_idx |-> 0, child_word_full |-> FALSE,
     page_idx |-> 0, ret |-> None]

height == height_from_total_words(tree_len)

AllIdle == \A t \in Threads : th[t].pc = "idle"

\* The tree in which exactly the pages [0, n) are allocated, as n sequential
\* allocs from the all-zero tree leave it.
FilledLayer(h, layer, n) ==
    LET full == n \div (ATOMIC_WORD_BITS ^ (h - 1 - layer))
    IN  {tree_layer(layer).offset * ATOMIC_WORD_BITS + i : i \in 0..(full - 1)}

Filled(len, n) ==
    LET h == height_from_total_words(len)
    IN  UNION {FilledLayer(h, layer, n) : layer \in 0..(h - 1)}

\* No alloc() immediately followed by free() of its page is under way
NoTree == [valid |-> FALSE, tree |-> {}]

\* (tree length, pages allocated before the run starts)
InitShapes == {<<1, 0>>, <<1, 62>>, <<65, 0>>, <<65, 62>>, <<65, 63>>}

PaInit(shapes) ==
    /\ \E s \in shapes :
        /\ tree_len = s[1]
        /\ num_pages = ATOMIC_WORD_BITS ^ height_from_total_words(s[1])
        /\ tree = Filled(s[1], s[2])
        /\ live = 0..(s[2] - 1)
        /\ unfreed = 0..(s[2] - 1)
        /\ held = {p \in 0..(s[2] - 1) : p < MaxInitHeld}
    /\ th = [t \in Threads |-> Idle]
    /\ calls = 0
    /\ n_ok = 0
    /\ n_none = 0
    /\ before = NoTree

\* alloc(): entry, and each restart of 'search
search(t) == [th[t] EXCEPT !.pc = "descend", !.layer = 0, !.word_idx = 0]

\* alloc() is called
AllocCall(t) ==
    /\ th[t].pc = "idle"
    /\ th' = [th EXCEPT ![t] = search(t)]
    /\ calls' = calls + 1
    /\ before' = IF AllIdle THEN [valid |-> TRUE, tree |-> tree] ELSE NoTree
    /\ UNCHANGED <<tree_len, num_pages, tree, held, live, unfreed, n_ok, n_none>>
    /\ UNCHANGED <<map_vars, heap_vars, setup_vars>>

\* One iteration of the descent loop: load a word and pick its first zero bit
Descend(t) ==
    /\ th[t].pc = "descend"
    /\ LET me == th[t]
           bit_idx == trailing_ones(load(tree, me.layer, me.word_idx))
       IN  IF bit_idx = ATOMIC_WORD_BITS
           THEN IF me.layer = 0
                THEN /\ th' = [th EXCEPT ![t] = Idle]
                     /\ n_none' = n_none + 1
                ELSE /\ th' = [th EXCEPT ![t] = search(t)]
                     /\ UNCHANGED n_none
           ELSE /\ UNCHANGED n_none
                /\ IF me.layer = height - 1
                   THEN th' = [th EXCEPT ![t] =
                            [me EXCEPT !.pc = "claim",
                                       !.leaf_word_idx = me.word_idx,
                                       !.leaf_bit_idx = bit_idx]]
                   ELSE th' = [th EXCEPT ![t] =
                            [me EXCEPT !.word_idx = me.word_idx * ATOMIC_WORD_BITS + bit_idx,
                                       !.layer = me.layer + 1]]
    /\ UNCHANGED <<tree_len, num_pages, tree, held, live, unfreed, calls, n_ok, before>>
    /\ UNCHANGED <<map_vars, heap_vars, setup_vars>>

\* alloc() returns Some(page_idx)
alloc_return(me) == [Idle EXCEPT !.ret = Some(me.page_idx)]

\* The claiming fetch_or on the leaf word
Claim(t) ==
    /\ th[t].pc = "claim"
    /\ LET me == th[t]
           old == load(tree, height - 1, me.leaf_word_idx)
           page == me.leaf_word_idx * ATOMIC_WORD_BITS + me.leaf_bit_idx
           mine == [me EXCEPT !.page_idx = page,
                              !.word_idx = me.leaf_word_idx \div ATOMIC_WORD_BITS,
                              !.bit_idx = me.leaf_word_idx % ATOMIC_WORD_BITS,
                              !.child_word_full = word_full_after(old, me.leaf_bit_idx),
                              !.layer = height - 2]
       IN  /\ tree' = fetch_or(tree, height - 1, me.leaf_word_idx, me.leaf_bit_idx)
           /\ IF claim_lost(old, me.leaf_bit_idx)
              THEN /\ th' = [th EXCEPT ![t] = search(t)]
                   /\ UNCHANGED <<live, held, unfreed, n_ok>>
              ELSE /\ live' = live \cup {page}
                   /\ IF height - 1 = 0
                      THEN /\ th' = [th EXCEPT ![t] = alloc_return(mine)]
                           /\ held' = held \cup {page}
                           /\ unfreed' = unfreed \cup {page}
                           /\ n_ok' = n_ok + 1
                      ELSE /\ th' = [th EXCEPT ![t] = [mine EXCEPT !.pc = "ascend"]]
                           /\ UNCHANGED <<held, unfreed, n_ok>>
    /\ UNCHANGED <<tree_len, num_pages, calls, n_none, before>>
    /\ UNCHANGED <<map_vars, heap_vars, setup_vars>>

\* One iteration of the walk up the tree after a successful claim
Ascend(t) ==
    /\ th[t].pc = "ascend"
    /\ LET me == th[t]
           old == load(tree, me.layer, me.word_idx)
           full == IF me.child_word_full
                   THEN word_full_after(old, me.bit_idx)
                   ELSE FALSE
           up == [me EXCEPT !.child_word_full = full,
                            !.bit_idx = me.word_idx % ATOMIC_WORD_BITS,
                            !.word_idx = me.word_idx \div ATOMIC_WORD_BITS]
       IN  /\ tree' = IF me.child_word_full
                      THEN fetch_or(tree, me.layer, me.word_idx, me.bit_idx)
                      ELSE tree
           /\ IF me.layer = 0
              THEN /\ th' = [th EXCEPT ![t] = alloc_return(up)]
                   /\ held' = held \cup {me.page_idx}
                   /\ unfreed' = unfreed \cup {me.page_idx}
                   /\ n_ok' = n_ok + 1
              ELSE /\ th' = [th EXCEPT ![t] = [up EXCEPT !.layer = me.layer - 1]]
                   /\ UNCHANGED <<held, unfreed, n_ok>>
    /\ UNCHANGED <<tree_len, num_pages, live, calls, n_none, before>>
    /\ UNCHANGED <<map_vars, heap_vars, setup_vars>>

\* free(page_idx) is called, on a page the caller holds
FreeCall(t, p) ==
    /\ th[t].pc = "idle"
    /\ p \in held
    /\ th' = [th EXCEPT ![t] =
            [th[t] EXCEPT !.pc = "free", !.page_idx = p,
                          !.word_idx = p \div ATOMIC_WORD_BITS,
                          !.bit_idx = p % ATOMIC_WORD_BITS,
                          !.layer = height - 1]]
    /\ held' = held \ {p}
    /\ calls' = calls + 1
    /\ before' = IF before.valid /\ AllIdle /\ th[t].ret = Some(p)
                 THEN before
                 ELSE NoTree
    /\ UNCHANGED <<tree_len, num_pages, tree, live, unfreed, n_ok, n_none>>
    /\ UNCHANGED <<map_vars, heap_vars, setup_vars>>

\* One iteration of free's loop: clear a bit, move to the parent word
FreeStep(t) ==
    /\ th[t].pc = "free"
    /\ LET me == th[t]
           up == [me EXCEPT !.bit_idx = me.word_idx % ATOMIC_WORD_BITS,
                            !.word_idx = me.word_idx \div ATOMIC_WORD_BITS]
       IN  /\ tree' = fetch_and(tree, me.layer, me.word_idx, me.bit_idx)
           /\ live' = IF me.layer = height - 1 THEN live \ {me.page_idx} ELSE live
           /\ IF me.layer = 0
              THEN /\ th' = [th EXCEPT ![t] = [Idle EXCEPT !.ret = me.ret]]
                   /\ unfreed' = unfreed \ {me.page_idx}
              ELSE /\ th' = [th EXCEPT ![t] = [up EXCEPT !.layer = me.layer - 1]]
                   /\ UNCHANGED unfreed
    /\ UNCHANGED <<tree_len, num_pages, held, calls, n_ok, n_none, before>>
    /\ UNCHANGED <<map_vars, heap_vars, setup_vars>>

\* ------------------------------------------------------------------------
\* OrderedMap: nodes.  ArrayVec indices are 0-based as in the source;
\* a TLA+ sequence holds element idx at position idx + 1.
\* ------------------------------------------------------------------------

\* Node::new()
NewNode == [keys |-> <<>>, values |-> <<>>, children |-> <<>>]

\* Node::is_leaf
is_leaf(node) == Len(node.children) = 0

\* ArrayVec::insert(idx, x)
insert_at(s, idx, x) == SubSeq(s, 1, idx) \o <<x>> \o SubSeq(s, idx + 1, Len(s))

\* ArrayVec::remove(idx), ArrayVec::pop_at(idx)
remove_at(s, idx) == SubSeq(s, 1, idx) \o SubSeq(s, idx + 2, Len(s))

\* slice::binary_search on strictly ascending keys: Ok(idx) of the key, or
\* Err(idx) of its insertion point
binary_search(keys, key) ==
    IF \E i \in 1..Len(keys) : keys[i] = key
    THEN [found |-> TRUE, idx |-> (CHOOSE i \in 1..Len(keys) : keys[i] = key) - 1]
    ELSE [found |-> FALSE, idx |-> Cardinality({i \in 1..Len(keys) : keys[i] < key})]

RECURSIVE get_recursive(_, _)
get_recursive(node, key) ==
    LET r == binary_search(node.keys, key)
    IN  IF r.found
        THEN Some(node.values[r.idx + 1])
        ELSE IF r.idx < Len(node.children)
             THEN get_recursive(node.children[r.idx + 1], key)
             ELSE None

\* OrderedMap::get
get(map_root, key) == get_recursive(map_root, key)

\* Option<(u64, &V)>
NoPair == [some |-> FALSE, key |-> 0, val |-> 0]
SomePair(k, v) == [some |-> TRUE, key |-> k, val |-> v]

RECURSIVE get_nearest_floor_recursive(_, _, _)
get_nearest_floor_recursive(node, key, best) ==
    LET r == binary_search(node.keys, key)
        candidate == SomePair(node.keys[r.idx], node.values[r.idx])
        better == IF r.idx > 0 /\ (~best.some \/ candidate.key > best.key)
                  THEN candidate
                  ELSE best
    IN  IF r.found
        THEN SomePair(key, node.values[r.idx + 1])
        ELSE IF r.idx < Len(node.children)
             THEN get_nearest_floor_recursive(node.children[r.idx + 1], key,
                                              better)
             ELSE better

\* OrderedMap::get_nearest_floor
get_nearest_floor(map_root, key) ==
    get_nearest_floor_recursive(map_root, key, NoPair)

\* ------------------------------------------------------------------------
\* OrderedMap: insert
\* ------------------------------------------------------------------------

NoSplitInfo == [promoted_key |-> 0, promoted_value |-> 0, new_node |-> NewNode]

\* split_node.  internal_insert_child is <<>> for None and <<child>> for
\* Some(child).  The result carries the left node, the SplitInfo, and
\* whether the call panicked.
split_node(node, idx, key, value, internal_insert_child) ==
    LET mid == ORDER \div 2
        drained == IF is_leaf(node)
                   THEN <<>>
                   ELSE SubSeq(node.children, mid + 2, Len(node.children))
        \* children.drain((mid + 1)..) needs mid + 1 <= len;
        \* idx - mid underflows for idx < mid, and insert needs idx - mid <= len
        panics ==
            \/ ~is_leaf(node) /\ Len(node.children) < mid + 1
            \/ /\ internal_insert_child # <<>>
               /\ \/ idx < mid
                  \/ idx - mid > Len(drained)
                  \/ Len(drained) >= ORDER + 1
        new_node_children ==
            IF internal_insert_child = <<>>
            THEN drained
            ELSE insert_at(drained, idx - mid, internal_insert_child[1])
        left == [keys |-> SubSeq(node.keys, 1, mid),
                 values |-> SubSeq(node.values, 1, mid),
                 children |-> IF is_leaf(node) THEN <<>>
                              ELSE SubSeq(node.children, 1, mid + 1)]
        new_node == [keys |-> SubSeq(node.keys, mid + 1, Len(node.keys)),
                     values |-> SubSeq(node.values, mid + 1, Len(node.values)),
                     children |-> new_node_children]
    IN  IF panics
        THEN [panic |-> TRUE, node |-> node, info |-> NoSplitInfo]
        ELSE IF idx = mid
        THEN [panic |-> FALSE, node |-> left,
              info |-> [promoted_key |-> key, promoted_value |-> value,
                        new_node |-> new_node]]
        ELSE IF idx < mid
        THEN LET keys1 == insert_at(left.keys, idx, key)
                 values1 == insert_at(left.values, idx, value)
                 \* node.keys.remove(node.keys.len() - 1)
                 keys2 == remove_at(keys1, Len(keys1) - 1)
                 \* node.values.remove(node.keys.len() - 1), after the key is gone
                 values2 == remove_at(values1, Len(keys2) - 1)
             IN  [panic |-> FALSE,
                  node |-> [left EXCEPT !.keys = keys2, !.values = values2],
                  info |-> [promoted_key |-> keys1[Len(keys1)],
                            promoted_value |-> values1[Len(keys2)],
                            new_node |-> new_node]]
        ELSE LET keys1 == insert_at(new_node.keys, idx - mid, key)
                 values1 == insert_at(new_node.values, idx - mid, value)
             IN  [panic |-> FALSE, node |-> left,
                  info |-> [promoted_key |-> keys1[1],
                            promoted_value |-> values1[1],
                            new_node |-> [new_node EXCEPT !.keys = remove_at(keys1, 0),
                                                          !.values = remove_at(values1, 0)]]]

InsertPanic(node) == [panic |-> TRUE, node |-> node, split |-> <<>>]

RECURSIVE insert_recursive(_, _, _)
\* insert_recursive: the node afterwards, and <<SplitInfo>> if it was split
insert_recursive(node, key, value) ==
    LET r == binary_search(node.keys, key)
    IN  IF r.found
        THEN [panic |-> FALSE,
              node |-> [node EXCEPT !.values[r.idx + 1] = value],
              split |-> <<>>]
        ELSE IF is_leaf(node)
        THEN IF Len(node.keys) < ORDER
             THEN [panic |-> FALSE,
                   node |-> [node EXCEPT !.keys = insert_at(@, r.idx, key),
                                         !.values = insert_at(@, r.idx, value)],
                   split |-> <<>>]
             ELSE LET s == split_node(node, r.idx, key, value, <<>>)
                  IN  [panic |-> s.panic, node |-> s.node, split |-> <<s.info>>]
        ELSE IF r.idx >= Len(node.children)
        THEN InsertPanic(node)  \* expect("child node should be present")
        ELSE LET c == insert_recursive(node.children[r.idx + 1], key, value)
                 node1 == [node EXCEPT !.children[r.idx + 1] = c.node]
             IN  IF c.panic
                 THEN InsertPanic(node)
                 ELSE IF c.split = <<>>
                 THEN [panic |-> FALSE, node |-> node1, split |-> <<>>]
                 ELSE IF Len(node1.keys) < ORDER
                 THEN IF Len(node1.children) >= ORDER + 1
                      THEN InsertPanic(node)  \* children.insert on a full ArrayVec
                      ELSE [panic |-> FALSE,
                            node |-> [node1 EXCEPT
                                !.keys = insert_at(@, r.idx, c.split[1].promoted_key),
                                !.values = insert_at(@, r.idx, c.split[1].promoted_value),
                                !.children = insert_at(@, r.idx + 1, c.split[1].new_node)],
                            split |-> <<>>]
                 ELSE LET s == split_node(node1, r.idx, c.split[1].promoted_key,
                                          c.split[1].promoted_value,
                                          <<c.split[1].new_node>>)
                      IN  [panic |-> s.panic, node |-> s.node, split |-> <<s.info>>]

\* OrderedMap::insert: the root afterwards
insert(map_root, key, value) ==
    LET r == insert_recursive(map_root, key, value)
    IN  IF r.panic
        THEN [panic |-> TRUE, root |-> map_root]
        ELSE IF r.split = <<>>
        THEN [panic |-> FALSE, root |-> r.node]
        ELSE [panic |-> FALSE,
              root |-> [keys |-> <<r.split[1].promoted_key>>,
                        values |-> <<r.split[1].promoted_value>>,
                        children |-> <<r.node, r.split[1].new_node>>]]

\* ------------------------------------------------------------------------
\* OrderedMap: remove
\* ------------------------------------------------------------------------

\* A repair that did not apply (done = FALSE) or panicked
Repair(node, panic, done, value) ==
    [panic |-> panic, done |-> done, node |-> node, value |-> value]

replace_from_left(node, idx) ==
    IF idx >= Len(node.children)
    THEN Repair(node, TRUE, FALSE, 0)  \* expect("`left_child` should exist")
    ELSE LET left_child == node.children[idx + 1]
         IN  IF Len(left_child.keys) >= MIN_KEYS
             THEN LET left1 == [left_child EXCEPT
                                   !.keys = SubSeq(@, 1, Len(@) - 1),
                                   !.values = SubSeq(@, 1, Len(@) - 1)]
                  IN  Repair([node EXCEPT
                                 !.children[idx + 1] = left1,
                                 !.keys[idx + 1] = left_child.keys[Len(left_child.keys)],
                                 !.values[idx + 1] = left_child.values[Len(left_child.values)]],
                             FALSE, TRUE, node.values[idx + 1])
             ELSE Repair(node, FALSE, FALSE, 0)

replace_from_right(node, idx) ==
    IF idx + 1 >= Len(node.children)
    THEN Repair(node, TRUE, FALSE, 0)  \* expect("`right_child` should exist")
    ELSE LET right_child == node.children[idx + 2]
         IN  IF Len(right_child.keys) >= MIN_KEYS
             THEN LET right1 == [right_child EXCEPT
                                    !.keys = remove_at(@, 0),
                                    !.values = remove_at(@, 0)]
                  IN  Repair([node EXCEPT
                                 !.children[idx + 2] = right1,
                                 !.keys[idx + 1] = right_child.keys[1],
                                 !.values[idx + 1] = right_child.values[1]],
                             FALSE, TRUE, node.values[idx + 1])
             ELSE Repair(node, FALSE, FALSE, 0)

rotate_from_left(node, child_idx) ==
    IF child_idx = 0
    THEN Repair(node, FALSE, FALSE, 0)
    ELSE LET left_sibling == node.children[child_idx]
             child == node.children[child_idx + 1]
         IN  IF Len(left_sibling.keys) < MIN_KEYS
             THEN Repair(node, FALSE, FALSE, 0)
             ELSE IF child_idx - 1 >= Len(node.keys) \/ Len(child.keys) >= ORDER
             THEN Repair(node, TRUE, FALSE, 0)
             ELSE LET left1 == [left_sibling EXCEPT
                                   !.keys = SubSeq(@, 1, Len(@) - 1),
                                   !.values = SubSeq(@, 1, Len(@) - 1)]
                      child1 == [child EXCEPT
                                    !.keys = insert_at(@, 0, node.keys[child_idx]),
                                    !.values = insert_at(@, 0, node.values[child_idx])]
                  IN  Repair([node EXCEPT
                                 !.children[child_idx] = left1,
                                 !.children[child_idx + 1] = child1,
                                 !.keys[child_idx] = left_sibling.keys[Len(left_sibling.keys)],
                                 !.values[child_idx] = left_sibling.values[Len(left_sibling.values)]],
                             FALSE, TRUE, 0)

\* rotate_from_right of a tree whose siblings give a key while they hold
\* more than one
rotate_from_right_of_any(node, child_idx) ==
    IF child_idx >= Len(node.keys)
    THEN Repair(node, FALSE, FALSE, 0)
    ELSE IF child_idx + 1 >= Len(node.children)
    THEN Repair(node, TRUE, FALSE, 0)
    ELSE LET right_sibling == node.children[child_idx + 2]
             child == node.children[child_idx + 1]
         IN  IF Len(right_sibling.keys) < 2
             THEN Repair(node, FALSE, FALSE, 0)
             ELSE Repair([node EXCEPT
                             !.children[child_idx + 2] =
                                 [right_sibling EXCEPT
                                     !.keys = remove_at(@, 0),
                                     !.values = remove_at(@, 0)],
                             !.children[child_idx + 1] =
                                 [child EXCEPT
                                     !.keys = Append(@, node.keys[child_idx + 1]),
                                     !.values = Append(@, node.values[child_idx + 1])],
                             !.keys[child_idx + 1] = right_sibling.keys[1],
                             !.values[child_idx + 1] = right_sibling.values[1]],
                         FALSE, TRUE, 0)

rotate_from_right(node, child_idx) ==
    IF child_idx >= Len(node.keys)
    THEN Repair(node, FALSE, FALSE, 0)
    ELSE IF child_idx + 1 >= Len(node.children)
    THEN Repair(node, TRUE, FALSE, 0)  \* expect("`right_sibling` should exist")
    ELSE LET right_sibling == node.children[child_idx + 2]
             child == node.children[child_idx + 1]
         IN  IF Len(right_sibling.keys) < MIN_KEYS
             THEN Repair(node, FALSE, FALSE, 0)
             ELSE IF Len(child.keys) >= ORDER
             THEN Repair(node, TRUE, FALSE, 0)
             ELSE LET right1 == [right_sibling EXCEPT
                                    !.keys = remove_at(@, 0),
                                    !.values = remove_at(@, 0)]
                      child1 == [child EXCEPT
                                    !.keys = Append(@, node.keys[child_idx + 1]),
                                    !.values = Append(@, node.values[child_idx + 1])]
                  IN  Repair([node EXCEPT
                                 !.children[child_idx + 2] = right1,
                                 !.children[child_idx + 1] = child1,
                                 !.keys[child_idx + 1] = right_sibling.keys[1],
                                 !.values[child_idx + 1] = right_sibling.values[1]],
                             FALSE, TRUE, 0)

\* The node `into` after the separator pair and all of `from` were appended
merged(into, node_key, node_value, from) ==
    [keys |-> Append(into.keys, node_key) \o from.keys,
     values |-> Append(into.values, node_value) \o from.values,
     children |-> into.children \o from.children]

\* ArrayVec::push and ArrayVec::extend panic beyond the capacity
merge_overflows(into, from) ==
    \/ Len(into.keys) + 1 + Len(from.keys) > ORDER
    \/ Len(into.children) + Len(from.children) > ORDER + 1

merge_with_sibling(node, child_idx) ==
    IF child_idx > 0
    THEN IF child_idx - 1 >= Len(node.keys)
         THEN [panic |-> TRUE, node |-> node]
         ELSE LET child == node.children[child_idx + 1]
                  left_sibling == node.children[child_idx]
              IN  IF merge_overflows(left_sibling, child)
                  THEN [panic |-> TRUE, node |-> node]
                  ELSE [panic |-> FALSE,
                        node |-> [keys |-> remove_at(node.keys, child_idx - 1),
                                  values |-> remove_at(node.values, child_idx - 1),
                                  children |->
                                      [remove_at(node.children, child_idx)
                                          EXCEPT ![child_idx] =
                                              merged(left_sibling,
                                                     node.keys[child_idx],
                                                     node.values[child_idx],
                                                     child)]]]
    ELSE IF Len(node.children) < 2 \/ Len(node.keys) = 0
         THEN [panic |-> TRUE, node |-> node]
         ELSE LET child == node.children[1]
                  right_sibling == node.children[2]
              IN  IF merge_overflows(child, right_sibling)
                  THEN [panic |-> TRUE, node |-> node]
                  ELSE [panic |-> FALSE,
                        node |-> [keys |-> remove_at(node.keys, 0),
                                  values |-> remove_at(node.values, 0),
                                  children |->
                                      [remove_at(node.children, 1)
                                          EXCEPT ![1] =
                                              merged(child, node.keys[1],
                                                     node.values[1],
                                                     right_sibling)]]]

\* Option<RemovalInfo>, with the node afterwards
Removal(node, panic, found, value, underflow) ==
    [panic |-> panic, found |-> found, node |-> node, value |-> value,
     underflow |-> underflow]

RECURSIVE remove_recursive(_, _)
remove_recursive(node, key) ==
    LET r == binary_search(node.keys, key)
    IN  IF r.found
        THEN IF is_leaf(node)
             THEN Removal([node EXCEPT !.keys = remove_at(@, r.idx),
                                       !.values = remove_at(@, r.idx)],
                          FALSE, TRUE, node.values[r.idx + 1],
                          Len(node.keys) - 1 < MIN_KEYS)
             ELSE LET l == replace_from_left(node, r.idx)
                      rr == replace_from_right(node, r.idx)
                  IN  IF l.panic
                      THEN Removal(node, TRUE, FALSE, 0, FALSE)
                      ELSE IF l.done
                      THEN Removal(l.node, FALSE, TRUE, l.value, FALSE)
                      ELSE IF rr.panic
                      THEN Removal(node, TRUE, FALSE, 0, FALSE)
                      ELSE IF rr.done
                      THEN Removal(rr.node, FALSE, TRUE, rr.value, FALSE)
                      ELSE Removal([node EXCEPT !.keys = remove_at(@, r.idx),
                                                !.values = remove_at(@, r.idx)],
                                   FALSE, TRUE, node.values[r.idx + 1],
                                   Len(node.keys) - 1 < MIN_KEYS)
        ELSE IF r.idx >= Len(node.children)
        THEN Removal(node, FALSE, FALSE, 0, FALSE)
        ELSE LET c == remove_recursive(node.children[r.idx + 1], key)
                 node1 == [node EXCEPT !.children[r.idx + 1] = c.node]
                 rl == rotate_from_left(node1, r.idx)
                 rr == rotate_from_right(node1, r.idx)
                 m == merge_with_sibling(node1, r.idx)
             IN  IF c.panic
                 THEN Removal(node, TRUE, FALSE, 0, FALSE)
                 ELSE IF ~c.found
                 THEN Removal(node, FALSE, FALSE, 0, FALSE)
                 ELSE IF ~c.underflow
                 THEN Removal(node1, FALSE, TRUE, c.value, FALSE)
                 ELSE IF rl.panic
                 THEN Removal(node, TRUE, FALSE, 0, FALSE)
                 ELSE IF rl.done
                 THEN Removal(rl.node, FALSE, TRUE, c.value, FALSE)
                 ELSE IF rr.panic
                 THEN Removal(node, TRUE, FALSE, 0, FALSE)
                 ELSE IF rr.done
                 THEN Removal(rr.node, FALSE, TRUE, c.value, FALSE)
                 ELSE IF m.panic
                 THEN Removal(node, TRUE, FALSE, 0, FALSE)
                 ELSE Removal(m.node, FALSE, TRUE, c.value,
                              Len(m.node.keys) < MIN_KEYS)

\* OrderedMap::remove: the root afterwards and the returned Option<V>
remove(map_root, key) ==
    LET r == remove_recursive(map_root, key)
    IN  IF r.panic
        THEN [panic |-> TRUE, root |-> map_root, ret |-> None]
        ELSE IF ~r.found
        THEN [panic |-> FALSE, root |-> map_root, ret |-> None]
        ELSE IF r.underflow /\ Len(r.node.keys) = 0
        THEN [panic |-> FALSE,
              root |-> IF is_leaf(r.node) THEN NewNode ELSE r.node.children[1],
              ret |-> Some(r.value)]
        ELSE [panic |-> FALSE, root |-> r.node, ret |-> Some(r.value)]

\* ------------------------------------------------------------------------
\* OrderedMap: runs
\* ------------------------------------------------------------------------

RECURSIVE Nodes(_)
\* Every node of a tree
Nodes(node) ==
    {node} \cup UNION {Nodes(node.children[i]) : i \in 1..Len(node.children)}

\* binary_search is specified for sorted slices only: a run is followed
\* while the keys of every node are strictly ascending
Searchable(map_root) ==
    \A n \in Nodes(map_root) :
        \A i \in 1..(Len(n.keys) - 1) : n.keys[i] < n.keys[i + 1]

\* Keys of the maps a run starts from, and the key sequences that build them
Tens(from, to) == [i \in 1..(to - from + 1) |-> 10 * (from + i - 1)]

\* a full root leaf
SeqFullLeaf == Tens(1, 8)
\* root {50} over two leaves of 4
SeqTwoLeaves == Tens(1, 9)
\* root {50, 100} over three leaves of 4
SeqThreeLeaves == Tens(1, 14)
\* root of 8 keys over 9 leaves, the first leaf full
SeqFullRoot == Tens(1, 9) \o <<41, 42, 43, 44>> \o Tens(10, 44)

InitSeqs == {<< >>, SeqFullLeaf, SeqTwoLeaves, SeqThreeLeaves, SeqFullRoot}

InsKeys == {5, 45, 95}
InsVals == {1, 2}
RemKeys == {5, 10, 40, 50, 60}
\* Keys of the tree drawn in remove.rs:258-268
ExampleKeys == 1..11

MapKeys ==
    InsKeys \cup RemKeys \cup ExampleKeys \cup
        UNION {{s[i] : i \in 1..Len(s)} : s \in InitSeqs}

RECURSIVE Built(_, _)
\* OrderedMap::new() followed by insert(s[i], s[i]) for i = 1..n
Built(s, n) ==
    IF n = 0
    THEN [panic |-> FALSE, root |-> NewNode]
    ELSE LET prev == Built(s, n - 1)
         IN  IF prev.panic THEN prev ELSE insert(prev.root, s[n], s[n])

MapInitWith(seqs) ==
    /\ \E s \in seqs :
        /\ ~Built(s, Len(s)).panic
        /\ root = Built(s, Len(s)).root
        /\ shadow = [k \in MapKeys |->
                        IF \E i \in 1..Len(s) : s[i] = k THEN Some(k) ELSE None]
    /\ map_panicked = FALSE
    /\ last_op = [op |-> "new", key |-> 0, ret |-> None]
    /\ map_ops = 0

\* map.insert(key, value)
MapInsert(key, value) ==
    /\ ~map_panicked
    /\ map_ops < MaxMapOps
    /\ Searchable(root)
    /\ LET r == insert(root, key, value)
       IN  /\ map_panicked' = r.panic
           /\ root' = r.root
           /\ shadow' = IF r.panic THEN shadow
                        ELSE [shadow EXCEPT ![key] = Some(value)]
    /\ last_op' = [op |-> "insert", key |-> key, ret |-> None]
    /\ map_ops' = map_ops + 1
    /\ UNCHANGED <<pa_vars, heap_vars, setup_vars>>

\* map.remove(key)
MapRemove(key) ==
    /\ ~map_panicked
    /\ map_ops < MaxMapOps
    /\ Searchable(root)
    /\ LET r == remove(root, key)
       IN  /\ map_panicked' = r.panic
           /\ root' = r.root
           /\ shadow' = IF r.panic THEN shadow
                        ELSE [shadow EXCEPT ![key] = None]
           /\ last_op' = [op |-> "remove", key |-> key, ret |-> r.ret]
    /\ map_ops' = map_ops + 1
    /\ UNCHANGED <<pa_vars, heap_vars, setup_vars>>

\* ------------------------------------------------------------------------
\* Heap (heap/chunk.rs, heap/pool.rs): memory of the bootstrap heap page.
\* Only the pointer-sized word at the start of each object is ever read as
\* a pointer, so the memory is kept as the set of the pairs <<address, word>>
\* with a non-zero word.
\* ------------------------------------------------------------------------

\* Option<NonNull<T>>::None is the all-zero word
NoPtr == 0

\* BOOTSTRAP_HEAP_PAGE_START: aligned to LARGE_PAGE_ALIGN
HEAP_PAGE_START == LARGE_PAGE_SIZE

\* ptr.as_ref() of a header: the word stored at addr
read(mem, addr) ==
    LET at == {p \in mem : p[1] = addr}
    IN  IF at = {} THEN 0 ELSE (CHOOSE p \in at : TRUE)[2]

\* ptr.write(header): store word at addr
write(mem, addr, word) ==
    {p \in mem : p[1] # addr}
        \cup (IF word = 0 THEN {} ELSE {<<addr, word>>})

\* core::ptr::write_bytes(addr, 0, count)
write_bytes_zero(mem, addr, count) ==
    {p \in mem : p[1] < addr \/ p[1] >= addr + count}

\* heap_page_start.add((chunk_idx + 1) * SMALL_PAGE_SIZE)
chunk_ptr(chunk_idx) == HEAP_PAGE_START + (chunk_idx + 1) * SMALL_PAGE_SIZE

\* chunk::init: every chunk heads a FreeChunkHeader pointing at the next
\* chunk, the last one holds None
chunk_init_mem ==
    {<<chunk_ptr(i), chunk_ptr(i + 1)>> :
        i \in 0..(CHUNKS_PER_HEAP_PAGE - 2)}

\* chunk::update_metadata: the index of the metadata word of the chunk
\* that holds ptr
chunk_idx_of(ptr) ==
    LET chunk_addr == (ptr \div SMALL_PAGE_SIZE) * SMALL_PAGE_SIZE
        heap_page_addr == (chunk_addr \div LARGE_PAGE_SIZE) * LARGE_PAGE_SIZE
    IN  (chunk_addr - heap_page_addr) \div SMALL_PAGE_SIZE - 1

\* chunk::update_metadata(ptr, |meta| *meta = word)
update_metadata(metas, ptr, word) == write(metas, chunk_idx_of(ptr), word)

\* chunk::alloc: pop the head of the free chunk list, clear the chunk and
\* its metadata word
chunk_alloc(mem, chunk_list, metas) ==
    IF chunk_list = NoPtr
    THEN [panic |-> TRUE, chunk |-> NoPtr, mem |-> mem,
          chunk_list |-> chunk_list, metas |-> metas]
    ELSE [panic |-> FALSE, chunk |-> chunk_list,
          mem |-> write_bytes_zero(mem, chunk_list, SMALL_PAGE_SIZE),
          chunk_list |-> read(mem, chunk_list),
          metas |-> update_metadata(metas, chunk_list, 0)]

\* ObjectPool::new_chunk: objs_per_chunk
objs_per_chunk == SMALL_PAGE_SIZE \div POOL_OBJ_SIZE

\* objs.add(i)
obj_add(objs, i) == objs + i * POOL_OBJ_SIZE

\* ObjectPool::new_chunk: the object for the current allocation, the new
\* list head and the memory afterwards
new_chunk(mem, chunk_list, metas, obj_list) ==
    LET c == chunk_alloc(mem, chunk_list, metas)
        objs == c.chunk
        linked == {obj_add(objs, i) : i \in 0..(objs_per_chunk - 3)}
        mem1 == {p \in c.mem : p[1] \notin linked}
                    \cup {<<a, a + POOL_OBJ_SIZE>> : a \in linked}
        mem2 == write(mem1, obj_add(objs, objs_per_chunk - 2), obj_list)
    IN  IF c.panic
        THEN [panic |-> TRUE, obj |-> NoPtr, took |-> TRUE, mem |-> mem,
              chunk_list |-> chunk_list, metas |-> metas,
              obj_list |-> obj_list]
        ELSE [panic |-> FALSE, obj |-> obj_add(objs, objs_per_chunk - 1),
              took |-> TRUE, mem |-> mem2, chunk_list |-> c.chunk_list,
              metas |-> c.metas, obj_list |-> objs]

\* ObjectPool::alloc that leaves the returned object at the head of the list
next_free_kept(mem, obj) == obj

\* ObjectPool::alloc: obj.as_ref().next_free, the new head of the list
next_free(mem, obj) == read(mem, obj)

\* chunk::init() and ObjectPool::new()
PoolInit ==
    /\ heap_mem = chunk_init_mem
    /\ free_chunk_list = chunk_ptr(0)
    /\ num_alloc_chunks = 0
    /\ chunk_metadatas = {}
    /\ free_obj_list = NoPtr
    /\ objs_out = {}
    /\ chunks_taken = << >>
    /\ pool_calls = 0
    /\ pool_last = [op |-> "new", obj |-> NoPtr, took |-> FALSE]
    /\ heap_panicked = FALSE
    /\ init_pc = "none"
    /\ boot_page = [start |-> HEAP_PAGE_START,
                    end |-> HEAP_PAGE_START + LARGE_PAGE_SIZE]
    /\ pool_256 = None

\* ObjectPool::alloc on the pool free_obj_list stands for
PoolAllocCall ==
    /\ ~heap_panicked
    /\ LET n == IF free_obj_list = NoPtr
                THEN new_chunk(heap_mem, free_chunk_list, chunk_metadatas,
                               free_obj_list)
                ELSE [panic |-> FALSE, obj |-> free_obj_list, took |-> FALSE,
                      mem |-> heap_mem, chunk_list |-> free_chunk_list,
                      metas |-> chunk_metadatas, obj_list |-> free_obj_list]
       IN  /\ heap_panicked' = n.panic
           /\ heap_mem' = n.mem
           /\ free_chunk_list' = n.chunk_list
           /\ chunk_metadatas' = n.metas
           /\ free_obj_list' = IF n.panic THEN n.obj_list
                               ELSE next_free(n.mem, n.obj)
           /\ objs_out' = IF n.panic THEN objs_out ELSE objs_out \cup {n.obj}
           /\ chunks_taken' = IF n.took /\ ~n.panic
                              THEN Append(chunks_taken, free_chunk_list)
                              ELSE chunks_taken
           /\ pool_last' = [op |-> "alloc", obj |-> n.obj, took |-> n.took]
    /\ pool_calls' = pool_calls + 1
    /\ UNCHANGED num_alloc_chunks
    /\ UNCHANGED <<pa_vars, map_vars, bm_vars, slot_vars, slot_th_vars, setup_vars>>

\* ObjectPool::alloc called on a pool directly
PoolAlloc == PoolAllocCall /\ UNCHANGED <<init_pc, boot_page, pool_256>>

\* ObjectPool::free(obj) of an object the caller owns
PoolFree(obj) ==
    /\ ~heap_panicked
    /\ obj \in objs_out
    /\ obj % POOL_OBJ_SIZE = 0
    /\ heap_mem' = write(heap_mem, obj, free_obj_list)
    /\ free_obj_list' = obj
    /\ objs_out' = objs_out \ {obj}
    /\ pool_last' = [op |-> "free", obj |-> obj, took |-> FALSE]
    /\ pool_calls' = pool_calls + 1
    /\ UNCHANGED <<free_chunk_list, num_alloc_chunks, chunk_metadatas,
                   chunks_taken, heap_panicked, init_pc, boot_page,
                   pool_256>>
    /\ UNCHANGED <<pa_vars, map_vars, bm_vars, slot_vars, slot_th_vars, setup_vars>>

\* Bootstrap heap pages the linker script may give: start and end address
BootPages ==
    {[start |-> HEAP_PAGE_START + offset, end |-> HEAP_PAGE_START + len] :
        offset \in {0, SMALL_PAGE_SIZE},
        len \in {LARGE_PAGE_SIZE, LARGE_PAGE_SIZE + SMALL_PAGE_SIZE}}

\* chunk::init: the sanity checks of the bootstrap heap page
boot_page_ok(page) ==
    /\ page.start % LARGE_PAGE_SIZE = 0
    /\ page.end - page.start = LARGE_PAGE_SIZE

\* heap::alloc: expect("init() should have been called first") panics
heap_alloc_panics(pool) == ~pool.some

\* Before heap::init(): CHUNK_ALLOC and POOL_256 hold None, the bootstrap
\* heap page is zeroed BSS
ModInit ==
    /\ heap_mem = {}
    /\ free_chunk_list = NoPtr
    /\ num_alloc_chunks = 0
    /\ chunk_metadatas = {}
    /\ free_obj_list = NoPtr
    /\ objs_out = {}
    /\ chunks_taken = << >>
    /\ pool_calls = 0
    /\ pool_last = [op |-> "new", obj |-> NoPtr, took |-> FALSE]
    /\ heap_panicked = FALSE
    /\ init_pc = "start"
    /\ boot_page \in BootPages
    /\ pool_256 = None

\* heap::init: chunk::init() and ObjectPool::<256>::new() into the local pool
ModInitChunk ==
    /\ init_pc = "start"
    /\ IF boot_page_ok(boot_page)
       THEN /\ heap_mem' = chunk_init_mem
            /\ free_chunk_list' = chunk_ptr(0)
            /\ init_pc' = "loop"
            /\ UNCHANGED heap_panicked
       ELSE /\ heap_panicked' = TRUE
            /\ init_pc' = "panicked"
            /\ UNCHANGED <<heap_mem, free_chunk_list>>
    /\ UNCHANGED <<num_alloc_chunks, chunk_metadatas, free_obj_list, objs_out,
                   chunks_taken, pool_calls, pool_last, boot_page, pool_256>>
    /\ UNCHANGED <<pa_vars, map_vars, bm_vars, slot_vars, slot_th_vars, setup_vars>>

\* heap::init: one iteration of `for i in 0.. { pool.alloc() }`
ModInitLoop ==
    /\ init_pc = "loop"
    /\ PoolAllocCall
    /\ init_pc' = IF heap_panicked' THEN "panicked" ELSE "loop"
    /\ UNCHANGED <<boot_page, pool_256>>

\* ------------------------------------------------------------------------
\* Heap (mem/heap.rs): the boot chunk with its slot bitmap
\* ------------------------------------------------------------------------

\* ChunkHeader.slot_bitmap: [u64; 8]
BITMAP_WORDS == 8

\* ChunkHeader.slot_metadata: [u32; 511]
SLOT_METADATA_LEN == 511

\* u16::MAX + 1
U16_RANGE == 65536

\* BOOTSTRAP_HEAP_CHUNK_START: aligned to CHUNK_ALIGN
BOOT_CHUNK_START == LARGE_PAGE_SIZE

\* slot_bitmap[word_idx]
bitmap_word(bitmap, word_idx) ==
    {b \in Bits : word_idx * ATOMIC_WORD_BITS + b \in bitmap}

\* ChunkHeader::alloc_slot: the bitmap and the counter afterwards, and the
\* returned Option<NonNull<u8>>
header_alloc_slot(bitmap, occupied) ==
    LET free_words == {w \in 0..(BITMAP_WORDS - 1) :
                          trailing_ones(bitmap_word(bitmap, w)) # ATOMIC_WORD_BITS}
    IN  IF free_words = {}
        THEN [slot |-> None, bitmap |-> bitmap, occupied |-> occupied]
        ELSE LET word_idx == CHOOSE w \in free_words :
                                 \A v \in free_words : w <= v
                 bit_idx == trailing_ones(bitmap_word(bitmap, word_idx))
                 idx == word_idx * ATOMIC_WORD_BITS + bit_idx
                 marked == bitmap \cup {idx}
             IN  IF idx >= 511
                 THEN [slot |-> None, bitmap |-> marked,
                       occupied |-> occupied]
                 ELSE [slot |-> Some(BOOT_CHUNK_START
                                     + (idx + 1) * SMALL_PAGE_SIZE),
                       bitmap |-> marked,
                       occupied |-> (occupied + 1) % U16_RANGE]

\* mem::heap::init: ChunkHeader::new in the boot chunk
BmInit ==
    /\ slot_bitmap = {}
    /\ num_occupied_slots = 0
    /\ slot_metadata = {}
    /\ slots_out = {}
    /\ bm_last = [op |-> "init", slot |-> None, entry |-> None]
    /\ bm_panicked = FALSE
    /\ bm_meta_calls = 0

\* mem::heap::alloc_slot
BmAllocSlot ==
    /\ ~bm_panicked
    /\ LET r == header_alloc_slot(slot_bitmap, num_occupied_slots)
       IN  /\ slot_bitmap' = r.bitmap
           /\ num_occupied_slots' = r.occupied
           /\ bm_panicked' = ~r.slot.some
           /\ slots_out' = IF r.slot.some THEN slots_out \cup {r.slot.val}
                           ELSE slots_out
           /\ bm_last' = [op |-> "alloc_slot", slot |-> r.slot,
                          entry |-> None]
    /\ UNCHANGED <<slot_metadata, bm_meta_calls>>
    /\ UNCHANGED <<pa_vars, map_vars, pool_vars, slot_vars, slot_th_vars, setup_vars>>

\* update_slot_metadata: the slot_idx derived from addr_in_slot
bm_slot_idx(addr_in_slot) ==
    LET chunk_addr == (addr_in_slot \div LARGE_PAGE_SIZE) * LARGE_PAGE_SIZE
        slot_addr == (addr_in_slot \div SMALL_PAGE_SIZE) * SMALL_PAGE_SIZE
    IN  (slot_addr - chunk_addr) \div SMALL_PAGE_SIZE

\* update_slot_metadata: the index of the entry of slot_metadata passed to
\* f, or None where the assert or the expect panics
bm_metadata_entry(addr_in_slot) ==
    LET slot_idx == bm_slot_idx(addr_in_slot)
    IN  IF slot_idx = 0 THEN None
        ELSE IF slot_idx >= SLOT_METADATA_LEN THEN None
        ELSE Some(slot_idx)

\* Addresses of the slots a run updates the metadata of: the first and the
\* last byte of the first two slots and of the last slot alloc_slot returns
MetadataAddrs ==
    {BOOT_CHUNK_START + slot_idx * SMALL_PAGE_SIZE + offset :
        slot_idx \in {1, 2, 511}, offset \in {0, SMALL_PAGE_SIZE - 1}}

\* mem::heap::update_slot_metadata(addr_in_slot, |count| *count += 1) by the
\* owner of the slot; the u32 entry never exceeds the number of calls made
BmUpdateSlotMetadata(addr_in_slot) ==
    /\ ~bm_panicked
    /\ (addr_in_slot \div SMALL_PAGE_SIZE) * SMALL_PAGE_SIZE \in slots_out
    /\ LET entry == bm_metadata_entry(addr_in_slot)
       IN  /\ bm_panicked' = ~entry.some
           /\ slot_metadata' =
                 IF entry.some
                 THEN write(slot_metadata, entry.val,
                            read(slot_metadata, entry.val) + 1)
                 ELSE slot_metadata
           /\ bm_last' = [op |-> "update_slot_metadata",
                          slot |-> Some(addr_in_slot), entry |-> entry]
    /\ bm_meta_calls' = bm_meta_calls + 1
    /\ UNCHANGED <<slot_bitmap, num_occupied_slots, slots_out>>
    /\ UNCHANGED <<pa_vars, map_vars, pool_vars, slot_vars, slot_th_vars, setup_vars>>

\* ------------------------------------------------------------------------
\* Heap (heap.rs): the boot chunk with its free slot list
\* ------------------------------------------------------------------------

\* heap.rs: const SLOTS_PER_CHUNK: usize = 512 - 2
SLOTS_PER_CHUNK == 512 - 2

\* ChunkHeader::slot_ptr of the boot chunk header
slot_ptr(slot_idx) == BOOT_CHUNK_START + (slot_idx + 2) * SMALL_PAGE_SIZE

\* slot_info: the slot_idx of the slot that holds ptr
slot_info(ptr) ==
    LET chunk_hdr_addr == (ptr \div LARGE_PAGE_SIZE) * LARGE_PAGE_SIZE
        slot_addr == (ptr \div SMALL_PAGE_SIZE) * SMALL_PAGE_SIZE
        abs_slot_idx == (slot_addr - chunk_hdr_addr) \div SMALL_PAGE_SIZE
    IN  abs_slot_idx - 2

\* (0, 0): the metadata of a slot after init
NoMetadata == <<0, 0>>

\* slot_metadatas[slot_idx]
metadata_of(metas, slot_idx) ==
    IF slot_idx \in DOMAIN metas THEN metas[slot_idx] ELSE NoMetadata

\* update_slot_metadata(ptr, |m| *m = pair)
update_slot_metadata(metas, ptr, pair) ==
    LET slot_idx == slot_info(ptr)
    IN  IF pair = NoMetadata
        THEN [i \in DOMAIN metas \ {slot_idx} |-> metas[i]]
        ELSE [i \in DOMAIN metas \cup {slot_idx} |->
                 IF i = slot_idx THEN pair ELSE metas[i]]

\* Metadata values a slot owner stores
MetadataValues == {NoMetadata, <<1, 0>>}

\* Offsets inside a slot at which its owner stores a non-zero word
OwnerOffsets == {0, ATOMIC_WORD_BYTES}

\* A thread outside alloc_slot and free_slot that holds the slots held
SlotIdle(held_slots) ==
    [pc |-> "idle", ptr |-> NoPtr, held |-> held_slots]

\* The spinlock is taken whatever its state
lock_granted_always(lock) == TRUE

\* Spinlock::lock: the spinning caller gets the lock once nobody holds it
lock_granted(lock) == lock = 0

\* heap::init: the free slot list through the slots of the boot chunk
slot_init_mem ==
    {<<slot_ptr(i), slot_ptr(i + 1)>> : i \in 0..(SLOTS_PER_CHUNK - 2)}

\* heap::init
SlotInit ==
    /\ slot_mem = slot_init_mem
    /\ free_slot_list = slot_ptr(0)
    /\ num_alloc_slots = 0
    /\ slot_metadatas = << >>
    /\ slots_held = {}
    /\ slot_calls = 0
    /\ slot_last = [op |-> "init", ptr |-> NoPtr]
    /\ slot_panicked = FALSE
    /\ heap_lock = 0
    /\ slot_th = [t \in Threads |-> SlotIdle({})]

\* heap::alloc_slot
SlotAlloc ==
    /\ ~slot_panicked
    /\ IF free_slot_list = NoPtr
       THEN /\ slot_panicked' = TRUE
            /\ slot_last' = [op |-> "alloc_slot", ptr |-> NoPtr]
            /\ UNCHANGED <<slot_mem, free_slot_list, num_alloc_slots,
                           slots_held>>
       ELSE /\ free_slot_list' = read(slot_mem, free_slot_list)
            /\ num_alloc_slots' = num_alloc_slots + 1
            /\ slot_mem' = write_bytes_zero(slot_mem, free_slot_list,
                                            SMALL_PAGE_SIZE)
            /\ slots_held' = slots_held \cup {free_slot_list}
            /\ slot_last' = [op |-> "alloc_slot", ptr |-> free_slot_list]
            /\ UNCHANGED slot_panicked
    /\ slot_calls' = slot_calls + 1
    /\ UNCHANGED slot_metadatas
    /\ UNCHANGED <<pa_vars, map_vars, pool_vars, bm_vars, slot_th_vars, setup_vars>>

\* heap::free_slot(ptr) of a slot the caller owns
SlotFree(ptr) ==
    /\ ~slot_panicked
    /\ ptr \in slots_held
    /\ ptr % SMALL_PAGE_SIZE = 0
    /\ num_alloc_slots' = num_alloc_slots - 1
    /\ IF num_alloc_slots - 1 = 0
       THEN /\ slot_panicked' = TRUE
            /\ UNCHANGED <<slot_mem, free_slot_list, slots_held>>
       ELSE /\ slot_mem' = write(slot_mem, ptr, free_slot_list)
            /\ free_slot_list' = ptr
            /\ slots_held' = slots_held \ {ptr}
            /\ UNCHANGED slot_panicked
    /\ slot_last' = [op |-> "free_slot", ptr |-> ptr]
    /\ slot_calls' = slot_calls + 1
    /\ UNCHANGED slot_metadatas
    /\ UNCHANGED <<pa_vars, map_vars, pool_vars, bm_vars, slot_th_vars, setup_vars>>

\* heap::update_slot_metadata(ptr, f) by the owner of the slot
SlotUpdateMetadata(ptr, pair) ==
    /\ ~slot_panicked
    /\ ptr \in slots_held
    /\ slot_info(ptr) < SLOTS_PER_CHUNK
    /\ slot_metadatas' = update_slot_metadata(slot_metadatas, ptr, pair)
    /\ slot_last' = [op |-> "update_slot_metadata", ptr |-> ptr]
    /\ slot_calls' = slot_calls + 1
    /\ UNCHANGED <<slot_mem, free_slot_list, num_alloc_slots, slots_held,
                   slot_panicked>>
    /\ UNCHANGED <<pa_vars, map_vars, pool_vars, bm_vars, slot_th_vars, setup_vars>>

\* The owner of a slot stores a non-zero word in it
SlotWrite(ptr, offset) ==
    /\ ~slot_panicked
    /\ ptr \in slots_held
    /\ slot_mem' = write(slot_mem, ptr + offset, 1)
    /\ slot_last' = [op |-> "write", ptr |-> ptr]
    /\ slot_calls' = slot_calls + 1
    /\ UNCHANGED <<free_slot_list, num_alloc_slots, slot_metadatas,
                   slots_held, slot_panicked>>
    /\ UNCHANGED <<pa_vars, map_vars, pool_vars, bm_vars, slot_th_vars, setup_vars>>

\* A thread calls alloc_slot or free_slot(ptr) and gets the HEAP_ALLOC lock
SlotLock(t, op, ptr) ==
    /\ ~slot_panicked
    /\ slot_th[t].pc = "idle"
    /\ op = "free_slot" => ptr \in slot_th[t].held
    /\ op = "alloc_slot" => ptr = NoPtr
    /\ lock_granted(heap_lock)
    /\ heap_lock' = t
    /\ slot_th' = [slot_th EXCEPT ![t].pc = op, ![t].ptr = ptr]
    /\ slot_calls' = slot_calls + 1
    /\ UNCHANGED <<slot_mem, free_slot_list, num_alloc_slots, slot_metadatas,
                   slots_held, slot_last, slot_panicked>>
    /\ UNCHANGED <<pa_vars, map_vars, pool_vars, bm_vars, setup_vars>>

\* alloc_slot: let Some(free_slot_ptr) = heap_alloc.free_slot_list
SlotTakeHead(t) ==
    /\ ~slot_panicked
    /\ slot_th[t].pc = "alloc_slot"
    /\ IF free_slot_list = NoPtr
       THEN /\ slot_panicked' = TRUE
            /\ UNCHANGED slot_th
       ELSE /\ slot_th' = [slot_th EXCEPT ![t].pc = "alloc_pop",
                                          ![t].ptr = free_slot_list]
            /\ UNCHANGED slot_panicked
    /\ UNCHANGED <<slot_mem, free_slot_list, num_alloc_slots, slot_metadatas,
                   slots_held, slot_calls, slot_last, heap_lock>>
    /\ UNCHANGED <<pa_vars, map_vars, pool_vars, bm_vars, setup_vars>>

\* alloc_slot: the rest, from the update of the list head to the return
\* that drops the guard
SlotPop(t) ==
    /\ ~slot_panicked
    /\ slot_th[t].pc = "alloc_pop"
    /\ LET free_slot_ptr == slot_th[t].ptr
       IN  /\ free_slot_list' = read(slot_mem, free_slot_ptr)
           /\ num_alloc_slots' = num_alloc_slots + 1
           /\ slot_mem' = write_bytes_zero(slot_mem, free_slot_ptr,
                                           SMALL_PAGE_SIZE)
           /\ slots_held' = slots_held \cup {free_slot_ptr}
           /\ slot_last' = [op |-> "alloc_slot", ptr |-> free_slot_ptr]
           /\ slot_th' = [slot_th EXCEPT
                  ![t] = SlotIdle(slot_th[t].held \cup {free_slot_ptr})]
    /\ heap_lock' = 0
    /\ UNCHANGED <<slot_metadatas, slot_calls, slot_panicked>>
    /\ UNCHANGED <<pa_vars, map_vars, pool_vars, bm_vars, setup_vars>>

\* free_slot: the body under the guard
SlotPush(t) ==
    /\ ~slot_panicked
    /\ slot_th[t].pc = "free_slot"
    /\ slot_th[t].ptr % SMALL_PAGE_SIZE = 0
    /\ num_alloc_slots' = num_alloc_slots - 1
    /\ IF num_alloc_slots - 1 = 0
       THEN /\ slot_panicked' = TRUE
            /\ UNCHANGED <<slot_mem, free_slot_list, slots_held, slot_th,
                           heap_lock>>
       ELSE /\ slot_mem' = write(slot_mem, slot_th[t].ptr, free_slot_list)
            /\ free_slot_list' = slot_th[t].ptr
            /\ slots_held' = slots_held \ {slot_th[t].ptr}
            /\ slot_th' = [slot_th EXCEPT
                   ![t] = SlotIdle(slot_th[t].held \ {slot_th[t].ptr})]
            /\ heap_lock' = 0
            /\ UNCHANGED slot_panicked
    /\ slot_last' = [op |-> "free_slot", ptr |-> slot_th[t].ptr]
    /\ UNCHANGED <<slot_metadatas, slot_calls>>
    /\ UNCHANGED <<pa_vars, map_vars, pool_vars, bm_vars, setup_vars>>

\* The heap of a page allocator run or a map run
HeapIdle == PoolInit /\ BmInit /\ SlotInit

\* ------------------------------------------------------------------------
\* Box (heap/box.rs) over heap::alloc (heap/mod.rs): the map's nodes as
\* pool objects
\* ------------------------------------------------------------------------

\* heap::alloc::<T>(val): the object POOL_256 gives, and POOL_256, the heap
\* page and the chunk allocator afterwards.  A pool is written as its
\* free_obj_list.
heap_alloc(pool, mem, chunk_list, metas) ==
    IF heap_alloc_panics(pool)
    THEN \* expect("init() should have been called first")
         [panic |-> TRUE, obj |-> NoPtr, pool |-> pool, mem |-> mem,
          chunk_list |-> chunk_list, metas |-> metas]
    ELSE LET n == IF pool.val = NoPtr
                  THEN new_chunk(mem, chunk_list, metas, pool.val)
                  ELSE [panic |-> FALSE, obj |-> pool.val, took |-> FALSE,
                        mem |-> mem, chunk_list |-> chunk_list,
                        metas |-> metas, obj_list |-> pool.val]
         IN  [panic |-> n.panic, obj |-> n.obj,
              pool |-> IF n.panic THEN pool ELSE Some(read(n.mem, n.obj)),
              mem |-> n.mem, chunk_list |-> n.chunk_list, metas |-> n.metas]

BoxIdle == node_objs = {}

\* No OrderedMap was created yet
BoxMapInit ==
    /\ root = NewNode
    /\ shadow = [k \in MapKeys |-> None]
    /\ map_panicked = FALSE
    /\ last_op = [op |-> "none", key |-> 0, ret |-> None]
    /\ map_ops = 0

\* OrderedMap::new(): Box::new(Node::new()), once heap::init() was called
\* and set the chunk allocator up; init() is then in its loop and stays
\* there
OrderedMapNew ==
    /\ last_op.op = "none"
    /\ init_pc = "loop"
    /\ ~heap_panicked
    /\ LET r == heap_alloc(pool_256, heap_mem, free_chunk_list, chunk_metadatas)
       IN  /\ map_panicked' = r.panic
           /\ heap_panicked' = r.panic
           /\ pool_256' = r.pool
           /\ heap_mem' = r.mem
           /\ free_chunk_list' = r.chunk_list
           /\ chunk_metadatas' = r.metas
           /\ node_objs' = IF r.panic THEN node_objs ELSE node_objs \cup {r.obj}
    /\ root' = NewNode
    /\ last_op' = [op |-> "new", key |-> 0, ret |-> None]
    /\ map_ops' = map_ops + 1
    /\ UNCHANGED <<shadow, num_alloc_chunks, free_obj_list, objs_out,
                   chunks_taken, pool_calls, pool_last, init_pc, boot_page>>
    /\ UNCHANGED <<pa_vars, bm_vars, slot_vars, slot_th_vars, calc_vars, bump_vars>>

\* ------------------------------------------------------------------------
\* Boot: sizing of the page allocator's trees (TreeAlloc::calc_size_for)
\* ------------------------------------------------------------------------

\* Page counts of the regions sized in a run: around every power of 64
\* up to 64^5, and the counts of test_tree_calc_size
CalcPages ==
    {0, 1, 2, 20, 63, 64, 65, 70, 4095, 4096, 4097, 5000,
     262143, 262144, 262145, 300000,
     16777215, 16777216, 16777217, 20000000,
     1073741823, 1073741824, 1073741825}

\* Bytes beyond the last whole page
CalcRems == {0, 1, PAGE_SIZE - 1}

\* Region lengths <<q, r>> of q * PAGE_SIZE + r bytes, at least one byte
CalcLens == (CalcPages \X CalcRems) \ {<<0, 0>>}

CalcIdle ==
    /\ calc_len = <<1, 0>>
    /\ calc_ret = [called |-> FALSE, ret |-> None]

CalcInit ==
    /\ calc_len \in CalcLens
    /\ calc_ret = [called |-> FALSE, ret |-> None]

\* TreeAlloc::calc_size_for(len)
CalcSizeFor ==
    /\ ~calc_ret.called
    /\ calc_ret' = [called |-> TRUE, ret |-> calc_size_for_wide(calc_len)]
    /\ UNCHANGED <<calc_len, bump_vars, box_vars, pa_vars, map_vars, heap_vars>>

\* ------------------------------------------------------------------------
\* Boot: BumpAlloc (kernel_algo/src/mem/bump_alloc.rs).  Addresses are
\* byte addresses.  A usize or pointer value v is written as v when it is
\* near 0 and as v - 2^64 when it is near 2^64, so that wrapping addition
\* and multiplication are + and * as long as the result is near 0 or 2^64,
\* and usize::MAX is -1.
\* ------------------------------------------------------------------------

\* Element types of the slices asked for, by size_of and align_of:
\* u8, AtomicWord, u128
BumpTypes ==
    {[size |-> 1, align |-> 1], [size |-> 8, align |-> 8],
     [size |-> 16, align |-> 16]}

\* Slice lengths asked for; -1 is usize::MAX
BumpSliceLens == {0, 1, 2, -1}

\* a <= b for usize or pointer values
ule(a, b) == IF (a < 0) = (b < 0) THEN a <= b ELSE a >= 0

\* len * size_of::<T>() overflows usize
mul_overflows(len, ty) == len < 0 /\ ty.size > 1

\* A slice of len elements of T is larger than isize::MAX bytes
slice_too_large(len, ty) == len < 0

\* Buffers the allocator is created on
BumpBufs == {[start |-> s, len |-> l] : s \in {4096, 4097}, l \in {16, 24}}

\* <*mut u8>::align_offset(align)
align_offset(ptr, align) == (align - (ptr % align)) % align

\* align_ptr::<T>(&mut ptr): the pointer afterwards
align_ptr(ptr, ty) == ptr + align_offset(ptr, ty.align)

\* BumpAlloc::new(buf), buf not empty
bump_new(buf) == [ptr |-> buf.start, last_addr |-> buf.start + buf.len - 1]

\* BumpAlloc::alloc_slice_mock::<T>(len)
alloc_slice_mock(b, ty, len) ==
    LET ptr == align_ptr(b.ptr, ty)
    IN  IF ~ule(ptr, b.last_addr)  \* assert_ptr_bounds
        THEN [panic |-> TRUE, bump |-> [b EXCEPT !.ptr = ptr]]
        ELSE [panic |-> FALSE, bump |-> [b EXCEPT !.ptr = ptr + len * ty.size]]

\* BumpAlloc::alloc_slice::<T>(len)
alloc_slice(b, ty, len) ==
    LET ptr == align_ptr(b.ptr, ty)
    IN  IF ~ule(ptr, b.last_addr)  \* assert_ptr_bounds
        THEN [panic |-> TRUE, bump |-> [b EXCEPT !.ptr = ptr]]
        ELSE IF ~ule(ptr + len * ty.size, b.last_addr)  \* assert_slice_bounds
        THEN [panic |-> TRUE, bump |-> [b EXCEPT !.ptr = ptr]]
        ELSE [panic |-> FALSE, bump |-> [b EXCEPT !.ptr = ptr + len * ty.size]]

\* The outcomes of alloc_slice_mock::<T>(len): a build with overflow checks
\* panics where len * size_of::<T>() overflows, a build without them wraps
alloc_slice_mock_outcomes(b, ty, len) ==
    LET r == alloc_slice_mock(b, ty, len)
    IN  {r} \cup (IF ~r.panic /\ mul_overflows(len, ty)
                  THEN {[r EXCEPT !.panic = TRUE,
                                  !.bump.ptr = align_ptr(b.ptr, ty)]}
                  ELSE {})

\* The outcomes of alloc_slice::<T>(len): slice::from_raw_parts_mut with
\* more than isize::MAX bytes is undefined behaviour, a build with debug
\* assertions panics on it or on the overflow of len * size_of::<T>(), a
\* build without them goes on with the wrapped pointer
alloc_slice_outcomes(b, ty, len) ==
    LET r == alloc_slice(b, ty, len)
    IN  {r} \cup (IF ~r.panic /\ slice_too_large(len, ty)
                  THEN {[r EXCEPT !.panic = TRUE,
                                  !.bump.ptr = align_ptr(b.ptr, ty)]}
                  ELSE {})

BumpPass(kind, buf) ==
    [kind |-> kind, buf |-> buf, reqs |-> << >>, ptrs |-> << >>, done |-> 0,
     slices |-> << >>, panicked |-> FALSE]

BumpIdle ==
    /\ bump = bump_new([start |-> 4096, len |-> 16])
    /\ bump_pass = BumpPass("none", [start |-> 4096, len |-> 16])

\* BumpAlloc::new(buf) of the mock pass
BumpInit ==
    \E buf \in BumpBufs :
        /\ bump = bump_new(buf)
        /\ bump_pass = BumpPass("mock", buf)

\* bump.alloc_slice_mock::<T>(len) in the mock pass
BumpAllocSliceMock(ty, len) ==
    /\ bump_pass.kind = "mock"
    /\ ~bump_pass.panicked
    /\ Len(bump_pass.reqs) < MaxBumpReqs
    /\ \E r \in alloc_slice_mock_outcomes(bump, ty, len) :
           /\ bump' = r.bump
           /\ bump_pass' = [bump_pass EXCEPT
                               !.reqs = Append(@, [ty |-> ty, len |-> len]),
                               !.ptrs = Append(@, r.bump.ptr),
                               !.panicked = r.panic]
    /\ UNCHANGED <<calc_vars, box_vars, pa_vars, map_vars, heap_vars>>

\* BumpAlloc::new(buf) of the actual pass, on the buffer of the mock pass
BumpNewActual ==
    /\ bump_pass.kind = "mock"
    /\ ~bump_pass.panicked
    /\ bump' = bump_new(bump_pass.buf)
    /\ bump_pass' = [bump_pass EXCEPT !.kind = "actual"]
    /\ UNCHANGED <<calc_vars, box_vars, pa_vars, map_vars, heap_vars>>

\* bump.alloc_slice::<T>(len) in the actual pass, for the next request of
\* the mock pass
BumpAllocSlice ==
    /\ bump_pass.kind = "actual"
    /\ ~bump_pass.panicked
    /\ bump_pass.done < Len(bump_pass.reqs)
    /\ LET req == bump_pass.reqs[bump_pass.done + 1]
       IN  \E r \in alloc_slice_outcomes(bump, req.ty, req.len) :
               /\ bump' = r.bump
               /\ bump_pass' =
                     [bump_pass EXCEPT
                         !.done = @ + 1,
                         !.slices =
                             IF r.panic THEN @
                             ELSE Append(@, [ptr |-> align_ptr(bump.ptr, req.ty),
                                             ty |-> req.ty,
                                             len |-> req.len]),
                         !.panicked = r.panic]
    /\ UNCHANGED <<calc_vars, box_vars, pa_vars, map_vars, heap_vars>>

SetupIdle == CalcIdle /\ BumpIdle /\ BoxIdle


\* ------------------------------------------------------------------------
\* Specifications
\* ------------------------------------------------------------------------

\* The map of a page allocator run, and the tree of a map run
MapIdle == MapInitWith({<< >>})
PaIdle == PaInit({<<1, 0>>})

Init == PaInit(InitShapes) /\ MapIdle /\ HeapIdle /\ SetupIdle

\* A thread takes the next step of the call it is in
Step(t) == Descend(t) \/ Claim(t) \/ Ascend(t) \/ FreeStep(t)

\* Concurrent use: any idle thread may start a call at any time
Next ==
    \E t \in Threads :
        \/ calls < MaxCalls /\ AllocCall(t)
        \/ calls < MaxCalls /\ \E p \in held : FreeCall(t, p)
        \/ Step(t)

Spec == Init /\ [][Next]_vars

\* Threads that are in a call keep running: each thread's steps are weakly fair
FairInitShapes == {<<65, 62>>, <<65, 63>>}

FairInit == PaInit(FairInitShapes) /\ MapIdle /\ HeapIdle /\ SetupIdle

FairSpec == FairInit /\ [][Next]_vars /\ \A t \in Threads : WF_vars(Step(t))

\* Sequential use: every call is made by one thread, so each call completes
\* before the next starts
SeqInitShapes == InitShapes \cup {<<4161, 4095>>}

SeqInit == PaInit(SeqInitShapes) /\ MapIdle /\ HeapIdle /\ SetupIdle

SeqNext ==
    \/ calls < MaxCalls /\ AllocCall(1)
    \/ calls < MaxCalls /\ \E p \in held : FreeCall(1, p)
    \/ Step(1)

SeqSpec == SeqInit /\ [][SeqNext]_vars

\* Filling an all-zero tree: one thread calls alloc until it has failed
\* MaxNone times
FillInitShapes == {<<1, 0>>, <<65, 0>>}

FillInit == PaInit(FillInitShapes) /\ MapIdle /\ HeapIdle /\ SetupIdle

FillNext ==
    \/ n_none < MaxNone /\ AllocCall(1)
    \/ Descend(1)
    \/ Claim(1)
    \/ Ascend(1)

FillSpec == FillInit /\ [][FillNext]_vars

\* Concurrent allocation with no free running
AllocNext ==
    \E t \in Threads :
        \/ calls < MaxCalls /\ AllocCall(t)
        \/ Descend(t)
        \/ Claim(t)
        \/ Ascend(t)

AllocSpec == Init /\ [][AllocNext]_vars

\* A zero-initialized tree sized by calc_size_for for a region of n pages
RegionPages == {1, 20, 64, 70}

RegionInit ==
    /\ \E n \in RegionPages :
        /\ num_pages = n
        /\ calc_size_for(n * PAGE_SIZE).some
        /\ tree_len = calc_size_for(n * PAGE_SIZE).val \div ATOMIC_WORD_BYTES
    /\ tree = {}
    /\ live = {}
    /\ unfreed = {}
    /\ held = {}
    /\ th = [t \in Threads |-> Idle]
    /\ calls = 0
    /\ n_ok = 0
    /\ n_none = 0
    /\ before = NoTree
    /\ MapIdle /\ HeapIdle /\ SetupIdle

RegionSpec == RegionInit /\ [][Next]_vars

\* Concurrent use of a tree whose pages are all allocated, the first
\* FullInitHeld of them held by callers of the run
FullInitShapes == {<<1, 64>>, <<65, 4096>>}

FullInit ==
    /\ \E s \in FullInitShapes :
        /\ tree_len = s[1]
        /\ num_pages = s[2]
        /\ tree = Filled(s[1], s[2])
        /\ live = 0..(s[2] - 1)
        /\ unfreed = 0..(s[2] - 1)
    /\ held = 0..(FullInitHeld - 1)
    /\ th = [t \in Threads |-> Idle]
    /\ calls = 0
    /\ n_ok = 0
    /\ n_none = 0
    /\ before = NoTree
    /\ MapIdle /\ HeapIdle /\ SetupIdle

FullSpec == FullInit /\ [][Next]_vars

\* OrderedMap: inserts only
MapInit == PaIdle /\ MapInitWith(InitSeqs) /\ HeapIdle /\ SetupIdle

MapInsertNext == \E k \in InsKeys, v \in InsVals : MapInsert(k, v)

MapInsertSpec == MapInit /\ [][MapInsertNext]_vars

\* OrderedMap: inserts and removes
MapNext ==
    \/ \E k \in InsKeys, v \in InsVals : MapInsert(k, v)
    \/ \E k \in RemKeys : MapRemove(k)

MapSpec == MapInit /\ [][MapNext]_vars

\* A heap run: the page allocator and the map are not used
HeapInit == PaIdle /\ MapIdle /\ HeapIdle /\ SetupIdle

\* ObjectPool: a bounded number of alloc and free calls in any order
PoolNext ==
    /\ pool_calls < MaxPoolCalls
    /\ \/ PoolAlloc
       \/ \E obj \in objs_out : PoolFree(obj)

PoolSpec == HeapInit /\ [][PoolNext]_vars

\* heap.rs: a bounded number of calls in any order
SlotNext ==
    /\ slot_calls < MaxSlotCalls
    /\ \/ SlotAlloc
       \/ \E ptr \in slots_held : SlotFree(ptr)
       \/ \E ptr \in slots_held, pair \in MetadataValues :
             SlotUpdateMetadata(ptr, pair)
       \/ \E ptr \in slots_held, offset \in OwnerOffsets :
             SlotWrite(ptr, offset)

SlotSpec == HeapInit /\ [][SlotNext]_vars

\* heap::init() from boot, on any bootstrap heap page
ModInitNext == ModInitChunk \/ ModInitLoop

ModInitInit == PaIdle /\ MapIdle /\ ModInit /\ BmInit /\ SlotInit /\ SetupIdle

ModInitSpec ==
    ModInitInit /\ [][ModInitNext]_vars

\* mem::heap: alloc_slot calls and a bounded number of metadata updates by
\* slot owners
BmMetaNext ==
    \/ BmAllocSlot
    \/ \E addr \in MetadataAddrs :
          bm_meta_calls < MaxMetaCalls /\ BmUpdateSlotMetadata(addr)

BmMetaSpec == HeapInit /\ [][BmMetaNext]_vars

\* heap.rs: threads calling alloc_slot and free_slot concurrently
SlotThreadsNext ==
    \E t \in Threads :
        \/ slot_calls < MaxSlotCalls /\ SlotLock(t, "alloc_slot", NoPtr)
        \/ \E ptr \in slot_th[t].held :
              slot_calls < MaxSlotCalls /\ SlotLock(t, "free_slot", ptr)
        \/ SlotTakeHead(t)
        \/ SlotPop(t)
        \/ SlotPush(t)

SlotThreadsSpec == HeapInit /\ [][SlotThreadsNext]_vars

\* mem::heap: alloc_slot calls on the boot chunk until one panics
BmSpec == HeapInit /\ [][BmAllocSlot]_vars

\* calc_size_for on one region length
CalcSpecInit == PaIdle /\ MapIdle /\ HeapIdle /\ CalcInit /\ BumpIdle /\ BoxIdle

CalcSpec == CalcSpecInit /\ [][CalcSizeFor]_vars

\* BumpAlloc: a mock pass, then the actual pass of the same requests
BumpSpecInit == PaIdle /\ MapIdle /\ HeapIdle /\ CalcIdle /\ BumpInit /\ BoxIdle

BumpNext ==
    \/ \E ty \in BumpTypes, len \in BumpSliceLens : BumpAllocSliceMock(ty, len)
    \/ BumpNewActual
    \/ BumpAllocSlice

BumpSpec == BumpSpecInit /\ [][BumpNext]_vars

\* heap::init() and the creation of an OrderedMap
BoxInit == PaIdle /\ BoxMapInit /\ ModInit /\ BmInit /\ SlotInit /\ SetupIdle

BoxNext == ModInitChunk \/ ModInitLoop \/ OrderedMapNew

BoxSpec == BoxInit /\ [][BoxNext]_vars

\* ------------------------------------------------------------------------
\* TreeAlloc: properties
\* ------------------------------------------------------------------------

AllocPcs == {"descend", "claim", "ascend"}

\* Thread t returns Some page from alloc in this step
AllocReturns(t) ==
    /\ th[t].pc \in AllocPcs
    /\ th'[t].pc = "idle"
    /\ th'[t].ret.some

\* The pages whose leaf bit is set
LeafBits ==
    LET base == tree_layer(height - 1).offset * ATOMIC_WORD_BITS
    IN  {e - base : e \in {x \in tree : x >= base}}

\* Every word of the tree is all-ones
AllOnes == tree = 0..(tree_len * ATOMIC_WORD_BITS - 1)

\* C1 as stated: alloc never returns a page that an earlier alloc returned
\* unless a free of that page has completed in between.
C1_NoReturnBeforeFreeCompleted ==
    [][\A t \in Threads : AllocReturns(t) => th'[t].ret.val \notin unfreed]_vars

\* C1 amended: alloc never returns a page that an earlier alloc returned and
\* whose holder has not yet called free on it; threads allocating from a
\* fresh tree therefore get distinct pages.
C1_NoReturnOfHeldPage ==
    [][\A t \in Threads : AllocReturns(t) => th'[t].ret.val \notin held]_vars

\* Page 0, allocated before the run, was freed and returned again by an
\* alloc of the run, while another thread also got a page.
C1_Witness ==
    /\ 61 \in live
    /\ \E t, u \in Threads :
        /\ t # u
        /\ th[t].pc = "idle" /\ th[t].ret = Some(0)
        /\ th[u].pc = "idle" /\ th[u].ret.some

\* C2: once all other calls have completed, an alloc call returns: a thread
\* does not stay inside alloc forever while the other threads are idle.
C2_LoneAllocReturns ==
    \A t \in Threads :
        (<>[](\A u \in Threads \ {t} : th[u].pc = "idle")) => []<>(th[t].pc = "idle")

\* C8: in sequential use, between calls every non-leaf bit is set iff the
\* child word it summarizes is all-ones.
C8_SummaryBitsExact ==
    AllIdle =>
        \A layer \in 0..(height - 2) :
            \A word_idx \in 0..(tree_layer(layer).len - 1) :
                \A b \in Bits :
                    (b \in load(tree, layer, word_idx))
                        <=> (load(tree, layer + 1, word_idx * ATOMIC_WORD_BITS + b)
                                = ATOMIC_WORD_MAX)

\* A leaf word was filled by an alloc of the run and its summary bit is set,
\* after at least one more call completed.
C8_Witness ==
    /\ AllIdle
    /\ height >= 2
    /\ n_ok >= 1
    /\ calls >= 2
    /\ 0 \in load(tree, 0, 0)

\* C9: at every step the set leaf bits are exactly the pages claimed by a
\* successful alloc and not yet cleared by free.
C9_LeafBitsAreLivePages ==
    /\ LeafBits = live
    /\ Cardinality(LeafBits) = Cardinality(live)

\* One thread has claimed a page and not yet returned it while another has
\* cleared its page's leaf bit and not yet finished free.
C9_Witness ==
    \E t, u \in Threads :
        /\ th[t].pc = "ascend"
        /\ th[u].pc = "free" /\ th[u].layer < height - 1

\* C10: filling an all-zero tree of height h, exactly 64^h allocs succeed,
\* then every word is all-ones, and a failing alloc changes no word.
C10_FillExact ==
    /\ n_ok <= ATOMIC_WORD_BITS ^ height
    /\ n_none > 0 => n_ok = ATOMIC_WORD_BITS ^ height
    /\ n_ok = ATOMIC_WORD_BITS ^ height => AllOnes
    /\ th[1].pc = "idle" => tree = Filled(tree_len, n_ok)

\* A tree was filled by exactly 64^h allocs and alloc then failed MaxNone
\* times.
C10_Witness ==
    /\ n_ok = ATOMIC_WORD_BITS ^ height
    /\ n_none = MaxNone
    /\ th[1].pc = "idle"
    /\ AllOnes

\* ------------------------------------------------------------------------
\* OrderedMap: properties
\* ------------------------------------------------------------------------

RECURSIVE AllKeys(_)
\* Every key of a tree
AllKeys(node) ==
    {node.keys[i] : i \in 1..Len(node.keys)} \cup
        UNION {AllKeys(node.children[i]) : i \in 1..Len(node.children)}

RECURSIVE LeafDepths(_)
\* The depths at which a tree has leaves
LeafDepths(node) ==
    IF is_leaf(node)
    THEN {0}
    ELSE {d + 1 : d \in UNION {LeafDepths(node.children[i]) :
                                  i \in 1..Len(node.children)}}

KeysAscending(node) ==
    \A i \in 1..(Len(node.keys) - 1) : node.keys[i] < node.keys[i + 1]

ChildrenOrdered(node) ==
    \A i \in 1..Len(node.keys) :
        /\ i <= Len(node.children) =>
               \A k \in AllKeys(node.children[i]) : k < node.keys[i]
        /\ i + 1 <= Len(node.children) =>
               \A k \in AllKeys(node.children[i + 1]) : node.keys[i] < k

NonRootNodes ==
    UNION {Nodes(root.children[i]) : i \in 1..Len(root.children)}

\* C3: after any sequence of inserts on a new map, get(k) returns the value
\* of the most recent insert(k, v) for every inserted key and none for every
\* key never inserted, whatever the index at which full nodes were split.
C3_GetReturnsLastInsert ==
    ~map_panicked => \A k \in MapKeys : get(root, k) = shadow[k]

\* C4: remove(k) returns the value currently associated with k (none if k is
\* absent) and removes exactly k: every other key is returned by get with
\* the same value afterwards, also when the root is replaced.
C4_RemoveRemovesExactlyKey ==
    [][(last_op'.op = "remove" /\ map_ops' = map_ops + 1 /\ ~map_panicked') =>
          /\ last_op'.ret = get(root, last_op'.key)
          /\ get(root', last_op'.key) = None
          /\ \A k \in MapKeys \ {last_op'.key} : get(root', k) = get(root, k)]_vars

\* C5: after every insert or remove the keys of each node are strictly
\* ascending, all keys of child i are smaller than key i which is smaller
\* than all keys of child i+1, and all leaves are at the same depth.
C5_TreeOrdered ==
    /\ \A n \in Nodes(root) : KeysAscending(n) /\ ChildrenOrdered(n)
    /\ Cardinality(LeafDepths(root)) = 1

\* C6: after every insert or remove every non-root node holds at least
\* MIN_KEYS = 4 and at most ORDER = 8 keys.
C6_NodeOccupancy ==
    \A n \in NonRootNodes : MIN_KEYS <= Len(n.keys) /\ Len(n.keys) <= ORDER

\* C7: insert never panics: for every tree reachable by inserts and every
\* key, insert completes, including when a full internal node is split
\* because a child at an index below the middle was split.
C7_InsertNeverPanics == ~(map_panicked /\ last_op.op = "insert")

\* ------------------------------------------------------------------------
\* TreeAlloc: sequential and concurrent allocation order
\* ------------------------------------------------------------------------

\* C11: in sequential use alloc returns the lowest-numbered free page: the
\* page it returns was free when it was called and every page below it was
\* allocated (so allocs from an empty tree return 0, 1, 2, ..., and after
\* free(p) with all pages below p allocated the next alloc returns p).
C11_AllocReturnsLowestFree ==
    [][AllocReturns(1) =>
          /\ th'[1].ret.val \notin unfreed
          /\ \A q \in 0..(th'[1].ret.val - 1) : q \in unfreed]_vars

\* free(0) on a tree with pages 0..61 allocated, then alloc returned 0
C11_Witness ==
    /\ th[1].pc = "idle"
    /\ th[1].ret = Some(0)
    /\ n_ok >= 1
    /\ 61 \in live

\* C12: when threads call alloc concurrently on a tree in which exactly the
\* pages [0, B) are allocated and no free runs, every returned index is new
\* (distinct from the pages allocated at the start and from every index
\* returned before), an alloc fails only when every page is taken, and once
\* all calls have returned the allocated pages are exactly the contiguous
\* range [0, B + successes) and every word equals that of the sequential
\* execution.
C12_ConcurrentAllocsContiguous ==
    [][/\ \A t \in Threads : AllocReturns(t) => th'[t].ret.val \notin unfreed
       /\ n_none' > 0 => Cardinality(live') = ATOMIC_WORD_BITS ^ height
       /\ AllIdle' =>
              /\ unfreed' = 0..(Cardinality(unfreed') - 1)
              /\ tree' = Filled(tree_len, Cardinality(unfreed'))]_vars

\* Both threads have allocated across the first leaf word's boundary
C12_Witness ==
    /\ AllIdle
    /\ tree_len = 65
    /\ n_ok >= 3
    /\ 64 \in live
    /\ \A t \in Threads : th[t].ret.some

\* C13: in sequential use, p = alloc() immediately followed by free(p)
\* leaves every word of the tree equal to its value before the alloc.
C13_FreeUndoesAlloc ==
    [][(th[1].pc = "free" /\ th'[1].pc = "idle" /\ before.valid) =>
          tree' = before.tree]_vars

\* alloc() returned the last page of the first middle word of a height-3
\* tree, setting a bit in every layer, and free() of it has returned
C13_Witness ==
    /\ tree_len = 4161
    /\ before.valid
    /\ th[1].pc = "idle"
    /\ th[1].ret = Some(4095)
    /\ 4095 \notin live

\* C14: on a zero-initialized tree sized by calc_size_for for a region of n
\* pages, alloc only returns page indices smaller than n; a one-page region
\* yields page 0 once and then none.
C14_ReturnsInsideRegion ==
    \A t \in Threads : th[t].ret.some => th[t].ret.val < num_pages


\* ------------------------------------------------------------------------
\* Heap: properties
\* ------------------------------------------------------------------------

\* No ObjectPool::free was called so far: every call handed out an object
NoPoolFrees == pool_calls = Cardinality(objs_out)

\* C15: in a pool with no frees, an alloc takes a new chunk from the chunk
\* allocator only when all 4096/S objects of every chunk taken before have
\* been handed out
C15_NewChunkOnlyWhenExhausted ==
    [][(NoPoolFrees /\ pool_calls' = pool_calls + 1 /\ pool_last'.took) =>
          Cardinality(objs_out) = objs_per_chunk * Len(chunks_taken)]_vars

RECURSIVE SumOver(_, _)
\* The sum of the words of metas at the indices idxs
SumOver(metas, idxs) ==
    IF idxs = {} THEN 0
    ELSE LET i == CHOOSE i \in idxs : TRUE
         IN  read(metas, i) + SumOver(metas, idxs \ {i})

\* The objects of the chunk chunk_idx that the callers of the pool hold
LiveIn(chunk_idx) == {obj \in objs_out : chunk_idx_of(obj) = chunk_idx}

\* C16: after any sequence of pool alloc and free calls the metadata words
\* of the chunks sum to allocs minus frees, and the metadata word of each
\* chunk is the number of live objects inside that chunk
C16_MetadataCountsLiveObjects ==
    /\ SumOver(chunk_metadatas, {p[1] : p \in chunk_metadatas})
          = Cardinality(objs_out)
    /\ \A chunk_idx \in 0..(CHUNKS_PER_HEAP_PAGE - 1) :
          read(chunk_metadatas, chunk_idx) = Cardinality(LiveIn(chunk_idx))

RECURSIVE Reach(_, _)
\* The addresses reached from those of found by following next any number
\* of times; found holds the first 2^i nodes and next is the 2^i-fold link
Reach(next, found) ==
    LET more == found \cup ({read(next, a) : a \in found} \ {NoPtr})
    IN  IF more = found THEN found
        ELSE Reach({q \in {<<p[1], read(next, p[2])>> : p \in next} :
                        q[2] # NoPtr}, more)

\* The addresses on the singly linked free list that starts at head
FreeList(mem, head) == IF head = NoPtr THEN {} ELSE Reach(mem, {head})

\* ObjectPool::free(obj) is the call of this step
PoolFrees(obj) ==
    /\ pool_calls' = pool_calls + 1
    /\ pool_last' = [op |-> "free", obj |-> obj, took |-> FALSE]

\* C17: when a free call makes the live-object count of a chunk reach zero,
\* the call completes normally, no object of that chunk remains on the
\* pool's freelist, and the chunk is back on the chunk allocator's free list
C17_EmptyChunkReturned ==
    [][\A obj \in objs_out :
          (PoolFrees(obj) /\ LiveIn(chunk_idx_of(obj)) = {obj}) =>
              /\ ~heap_panicked'
              /\ \A o \in FreeList(heap_mem', free_obj_list') :
                    chunk_idx_of(o) # chunk_idx_of(obj)
              /\ chunk_ptr(chunk_idx_of(obj)) \in
                    FreeList(heap_mem', free_chunk_list')]_vars

\* C18: after heap init and after every alloc_slot call the occupied-slot
\* counter of the chunk equals the popcount of its slot bitmap minus one
C18_OccupiedIsPopcountMinusOne ==
    num_occupied_slots = Cardinality(slot_bitmap) - 1

\* Every slot of the boot chunk that alloc_slot can return is handed out
AllSlotsOccupied ==
    slots_out = {BOOT_CHUNK_START + slot_idx * SMALL_PAGE_SIZE :
                    slot_idx \in 1..SLOT_METADATA_LEN}

\* C19: when every allocatable slot of the chunk list is occupied, the next
\* alloc_slot call does not panic: it returns a slot of a fresh chunk
C19_FullChunkGrowsHeap ==
    [][(AllSlotsOccupied /\ bm_last' # bm_last) =>
          /\ ~bm_panicked'
          /\ bm_last'.slot.some
          /\ bm_last'.slot.val \notin slots_out]_vars

\* heap::alloc_slot returned a slot in this step
SlotAllocReturns ==
    /\ slot_calls' = slot_calls + 1
    /\ slot_last'.op = "alloc_slot"
    /\ ~slot_panicked'

\* C20: every slot returned by alloc_slot has all of its 4096 bytes zero and
\* its slot-metadata word zero when it is returned, also when the slot was
\* used, given a non-zero metadata word and freed before
C20_AllocatedSlotIsZeroed ==
    [][SlotAllocReturns =>
          /\ \A p \in slot_mem' :
                p[1] < slot_last'.ptr
                    \/ p[1] >= slot_last'.ptr + SMALL_PAGE_SIZE
          /\ metadata_of(slot_metadatas', slot_info(slot_last'.ptr))
                = NoMetadata]_vars

\* The slots held by the threads other than t
HeldByOthers(t) == UNION {slot_th[u].held : u \in Threads \ {t}}

\* C21: under any interleaving of alloc_slot and free_slot calls of several
\* threads, alloc_slot never returns a slot held by another caller, and the
\* returned pointer is 4 KiB-aligned and lies in one of the slots 1..511 of
\* the chunk, not in its header
C21_SlotsExclusiveAndInChunk ==
    [][\A t \in Threads :
          (slot_th[t].pc = "alloc_pop" /\ slot_th'[t].pc = "idle") =>
              LET ret == slot_last'.ptr
              IN  /\ ret \in slot_th'[t].held
                  /\ ret \notin HeldByOthers(t)
                  /\ ret % SMALL_PAGE_SIZE = 0
                  /\ (ret - BOOT_CHUNK_START) \div SMALL_PAGE_SIZE \in 1..511
                  /\ ret - BOOT_CHUNK_START >= 2 * SMALL_PAGE_SIZE]_vars

\* Both threads hold a slot, one of them handed out again after a free
C21_Witness ==
    /\ \A t \in Threads : slot_th[t].pc = "idle" /\ slot_th[t].held # {}
    /\ slot_calls >= 4
    /\ slot_last.op = "alloc_slot"
    /\ slot_last.ptr = slot_ptr(0)

\* C22: for every address inside a slot that alloc_slot returned,
\* update_slot_metadata does not panic and passes to f an entry of the
\* slot-metadata array that belongs to that slot alone
C22_MetadataEntryPerSlot ==
    [][bm_meta_calls' = bm_meta_calls + 1 =>
          /\ ~bm_panicked'
          /\ bm_last'.entry.some
          /\ \A other \in MetadataAddrs :
                bm_metadata_entry(other) = bm_last'.entry
                    <=> bm_slot_idx(other) = bm_slot_idx(bm_last'.slot.val)]_vars

\* C23: heap init() panics only when the bootstrap page is misaligned or of
\* the wrong size, and once it has returned POOL_256 is initialized, so that
\* heap::alloc does not panic
C23_InitReturnsWithPool ==
    /\ init_pc = "panicked" => ~boot_page_ok(boot_page)
    /\ init_pc = "returned" => ~heap_alloc_panics(pool_256)

\* ------------------------------------------------------------------------
\* OrderedMap: floor queries, round trips, rotation and root split
\* ------------------------------------------------------------------------

\* Keys asked for: every key of a run, the key after it, and zero
FloorQueries == MapKeys \cup {k + 1 : k \in MapKeys} \cup {0}

\* The largest key of the map that is not above q, with the value of its
\* most recent insert
FloorOf(q) ==
    LET below == {k \in MapKeys : shadow[k].some /\ k <= q}
    IN  IF below = {} THEN NoPair
        ELSE LET k == CHOOSE k \in below : \A j \in below : j <= k
             IN  SomePair(k, shadow[k].val)

\* C24: on every map reachable by inserts, get_nearest_floor(q) returns the
\* largest key k <= q of the map with its value, and none if and only if
\* the map has no key <= q
C24_FloorIsLargestKeyBelow ==
    ~map_panicked =>
        \A q \in FloorQueries : get_nearest_floor(root, q) = FloorOf(q)

\* insert(key, value) followed by remove(key), from the map of the state
InsertThenRemove(key, value) ==
    LET i == insert(root, key, value)
    IN  IF i.panic
        THEN [panic |-> TRUE, root |-> root, ret |-> None]
        ELSE remove(i.root, key)

\* C25: on every map reachable by inserts and removes and for every key k
\* absent from it, insert(k, v) followed by remove(k) returns v and leaves
\* the tree as it was before the insert, node by node
C25_InsertRemoveRoundTrip ==
    (~map_panicked /\ Searchable(root)) =>
        \A k \in InsKeys \ AllKeys(root) : \A v \in InsVals :
            LET r == InsertThenRemove(k, v)
            IN  ~r.panic /\ r.ret = Some(v) /\ r.root = root

\* A leaf holding the given keys, each with itself as value
LeafOf(keys) == [keys |-> keys, values |-> keys, children |-> << >>]

\* The tree of the illustration of rotate_from_right (remove.rs:258-268)
\* with full leaves: root {4,8} over {1,2}, {5,6,7} and {9,10,11}
ExampleTree ==
    [keys |-> <<4, 8>>, values |-> <<4, 8>>,
     children |-> <<LeafOf(<<1, 2>>), LeafOf(<<5, 6, 7>>), LeafOf(<<9, 10, 11>>)>>]

\* The same tree after a rotation through parent key 4
ExampleRotated ==
    [keys |-> <<5, 8>>, values |-> <<5, 8>>,
     children |-> <<LeafOf(<<2, 4>>), LeafOf(<<6, 7>>), LeafOf(<<9, 10, 11>>)>>]

\* The same tree after the first leaf, parent key 4 and the second leaf
\* were merged
ExampleMerged ==
    [keys |-> <<8>>, values |-> <<8>>,
     children |-> <<LeafOf(<<2, 4, 5, 6, 7>>), LeafOf(<<9, 10, 11>>)>>]

\* A map holding the example tree
ExampleInit ==
    /\ PaIdle
    /\ HeapIdle /\ SetupIdle
    /\ root = ExampleTree
    /\ shadow = [k \in MapKeys |-> IF k \in ExampleKeys THEN Some(k) ELSE None]
    /\ map_panicked = FALSE
    /\ last_op = [op |-> "new", key |-> 0, ret |-> None]
    /\ map_ops = 0

ExampleNext == \E k \in ExampleKeys : MapRemove(k)

ExampleSpec == ExampleInit /\ [][ExampleNext]_vars

\* remove(1) was the first call on the example tree
RemovedOneFromExample ==
    /\ map_ops = 1
    /\ last_op.op = "remove"
    /\ last_op.key = 1

RootIsFullLeaf == is_leaf(root) /\ Len(root.keys) = ORDER

\* The root a full root leaf is split into when (key, value) is added:
\* the median of the 9 pairs over the 4 pairs below and the 4 pairs above it
SplitRootOf(leaf, key, value) ==
    LET idx == binary_search(leaf.keys, key).idx
        keys == insert_at(leaf.keys, idx, key)
        values == insert_at(leaf.values, idx, value)
        mid == ORDER \div 2 + 1
    IN  [keys |-> <<keys[mid]>>,
         values |-> <<values[mid]>>,
         children |->
             <<[keys |-> SubSeq(keys, 1, mid - 1),
                values |-> SubSeq(values, 1, mid - 1),
                children |-> << >>],
               [keys |-> SubSeq(keys, mid + 1, ORDER + 1),
                values |-> SubSeq(values, mid + 1, ORDER + 1),
                children |-> << >>]>>]

\* C27: an insert of a new key into a root that is a full leaf of 8 keys
\* leaves a new root holding exactly the median of the 9 keys with its own
\* value, over a left leaf with the 4 smallest and a right leaf with the 4
\* largest keys, each key with its own value
C27_RootSplit ==
    [][(RootIsFullLeaf /\ last_op'.op = "insert" /\ map_ops' = map_ops + 1
            /\ last_op'.key \notin AllKeys(root))
        => (~map_panicked'
            /\ root' = SplitRootOf(root, last_op'.key, shadow'[last_op'.key].val))]_vars

\* ------------------------------------------------------------------------
\* Boot: properties
\* ------------------------------------------------------------------------

\* ceil(a / b)
CeilDiv(a, b) == -((-a) \div b)

\* Powers of 64 up to 64^5
PowersOf64 == {ATOMIC_WORD_BITS ^ i : i \in 0..MAX_HEIGHT}

\* The smallest power of 64 that is >= x
SmallestPowerAbove(x) ==
    CHOOSE p \in PowersOf64 :
        p >= x /\ \A q \in PowersOf64 : q >= x => p <= q

\* Leaf words of the tree of a region of len = <<q, r>> bytes
LeafWordsFor(len) ==
    SmallestPowerAbove(
        CeilDiv(len[1] + CeilDiv(len[2], PAGE_SIZE), ATOMIC_WORD_BITS))

\* C28: for every region length len >= 1, calc_size_for(len) returns
\* 8 * (64 * L - 1) / 63 bytes, L the smallest power of 64 that is
\* >= ceil(ceil(len / 4096) / 64), and none exactly when L > 64^4
C28_CalcSizeClosedForm ==
    calc_ret.called =>
        LET L == LeafWordsFor(calc_len)
        IN  calc_ret.ret =
                IF L > ATOMIC_WORD_BITS ^ (MAX_HEIGHT - 1)
                THEN None
                ELSE Some(8 * ((64 * L - 1) \div 63))

\* calc_size_for was called with 5000 pages and returned 4161 words, and
\* would return none for one more page than a tree of 5 layers covers
C28_Witness ==
    /\ calc_ret.called
    /\ \/ calc_len = <<5000, 0>> /\ calc_ret.ret = Some(4161 * 8)
       \/ calc_len = <<1073741824, 1>> /\ calc_ret.ret = None

\* C29: in an actual pass of alloc_slice calls making the requests of a
\* mock pass of alloc_slice_mock calls from the same start address, the
\* bump pointer after each request is the one the mock pass held after it
C29_PassesAgree ==
    bump_pass.kind = "actual" =>
        /\ ~bump_pass.panicked
        /\ bump_pass.done >= 1 => bump.ptr = bump_pass.ptrs[bump_pass.done]

\* ------------------------------------------------------------------------
\* Box: properties
\* ------------------------------------------------------------------------

RECURSIVE NodeCount(_)
\* Number of nodes reachable from a node, itself included
NodeCount(node) ==
    IF is_leaf(node) THEN 1
    ELSE 1 + NodeCount(node.children[1])
           + (IF Len(node.children) = 1 THEN 0
              ELSE NodeCount([node EXCEPT !.children = Tail(@)]) - 1)

SummaryBitExact(layer, word_idx, b) ==
    (b \in load(tree, layer, word_idx))
        <=> (load(tree, layer + 1, word_idx * ATOMIC_WORD_BITS + b) = ATOMIC_WORD_MAX)

\* C31: in every state of concurrent use in which no alloc or free call is
\* in progress, each non-leaf bit is set iff the child word it summarizes
\* is all-ones
C31_QuiescentSummaryBitsExact ==
    (\A t \in Threads : th[t].pc = "idle") =>
        \A layer \in 0..(height - 2) :
            \A word_idx \in 0..(tree_layer(layer).len - 1) :
                \A b \in Bits : SummaryBitExact(layer, word_idx, b)

\* Every page of the tree
AllPages == 0..(ATOMIC_WORD_BITS ^ height - 1)

\* Thread t returns none from alloc in this step
AllocReturnsNone(t) ==
    /\ th[t].pc = "descend"
    /\ th'[t].pc = "idle"
    /\ n_none' = n_none + 1

\* C32: under any interleaving of alloc and free calls, an alloc call
\* returns none only if every leaf bit is set when it reads the root word;
\* in particular (the case stated here) it does not return none while a
\* page is free and no other call is in progress
C32_NoneOnlyWhenFull ==
    [][\A t \in Threads :
          (AllocReturnsNone(t) /\ \A u \in Threads \ {t} : th[u].pc = "idle")
              => LeafBits = AllPages]_vars

\* The bit of layer `layer` on the path from page p's leaf bit to the root
PathBit(p, layer) ==
    LET below == ATOMIC_WORD_BITS ^ (height - 1 - layer)
    IN  word_at(layer, p \div (below * ATOMIC_WORD_BITS)) * ATOMIC_WORD_BITS
            + ((p \div below) % ATOMIC_WORD_BITS)

\* C33: free(p) starts at p's leaf word and ends at the root; each of its
\* steps clears the one bit of its layer that lies on p's path and changes
\* no other bit of any word, so free never sets a bit
C33_FreeClearsOnlyItsPath ==
    [][\A t \in Threads :
          /\ (th[t].pc = "idle" /\ th'[t].pc = "free")
                => (tree' = tree /\ th'[t].layer = height - 1)
          /\ (th[t].pc = "free" /\ th'[t] # th[t])
                => /\ tree' = tree \ {PathBit(th[t].page_idx, th[t].layer)}
                   /\ IF th[t].layer = 0
                      THEN th'[t].pc = "idle"
                      ELSE th'[t].pc = "free" /\ th'[t].layer = th[t].layer - 1]_vars

\* free(0) has completed on a tree of height 3 and cleared a bit in each
\* layer, with page 1 still allocated
C33_Witness ==
    /\ height = 3
    /\ th[1].pc = "idle"
    /\ 0 \notin unfreed
    /\ n_ok = 0
    /\ PathBit(0, 0) \notin tree /\ PathBit(0, 1) \notin tree /\ PathBit(0, 2) \notin tree
    /\ PathBit(1, 2) \in tree

\* ------------------------------------------------------------------------
\* Heap: freeing the last slot, metadata updates under the lock, pool
\* freelist
\* ------------------------------------------------------------------------

\* C34: free_slot of the only occupied slot of the chunk completes without
\* a panic, leaves the occupied-slot count at zero and the freed slot at
\* the head of the free slot list, no longer held by the caller
C34_FreeOfLastSlotCompletes ==
    (slot_last.op = "free_slot" /\ num_alloc_slots = 0) =>
        /\ ~slot_panicked
        /\ free_slot_list = slot_last.ptr
        /\ slot_last.ptr \notin slots_held

\* C35: update_slot_metadata takes no lock and always completes: a call on
\* an address inside an allocated slot returns without a panic, changes the
\* metadata entry of the addressed slot and nothing else, and leaves the
\* slot bitmap, the occupied count and the set of allocated slots as the
\* alloc_slot calls interleaved with it left them
C35_MetadataUpdateCompletesAlone ==
    [][bm_meta_calls' = bm_meta_calls + 1 =>
          LET slot_idx == bm_slot_idx(bm_last'.slot.val)
          IN  /\ ~bm_panicked'
              /\ slot_metadata' =
                    write(slot_metadata, slot_idx,
                          read(slot_metadata, slot_idx) + 1)
              /\ slot_bitmap' = slot_bitmap
              /\ num_occupied_slots' = num_occupied_slots
              /\ slots_out' = slots_out]_vars

\* ------------------------------------------------------------------------
\* OrderedMap: donors of the repairs, node shape
\* ------------------------------------------------------------------------

\* One call of a repair function made by remove: the result and the child
\* or sibling the key would be taken from
RepairCall(result, donor) == [done |-> result.done, donor |-> donor]

RECURSIVE RepairCalls(_, _)
\* The calls of replace_from_left, replace_from_right, rotate_from_left and
\* rotate_from_right that remove_recursive(node, key) makes, in the order
\* and under the conditions of remove_recursive
RepairCalls(node, key) ==
    LET r == binary_search(node.keys, key)
    IN  IF r.found
        THEN IF is_leaf(node)
             THEN {}
             ELSE LET l == replace_from_left(node, r.idx)
                      rr == replace_from_right(node, r.idx)
                  IN  IF l.panic THEN {}
                      ELSE {RepairCall(l, node.children[r.idx + 1])}
                           \cup (IF l.done \/ rr.panic THEN {}
                                 ELSE {RepairCall(rr, node.children[r.idx + 2])})
        ELSE IF r.idx >= Len(node.children)
        THEN {}
        ELSE LET c == remove_recursive(node.children[r.idx + 1], key)
                 node1 == [node EXCEPT !.children[r.idx + 1] = c.node]
                 rl == rotate_from_left(node1, r.idx)
                 rr == rotate_from_right(node1, r.idx)
             IN  RepairCalls(node.children[r.idx + 1], key)
                 \cup (IF c.panic \/ ~c.found \/ ~c.underflow \/ rl.panic
                       THEN {}
                       ELSE (IF r.idx = 0 THEN {}
                             ELSE {RepairCall(rl, node1.children[r.idx])})
                            \cup (IF rl.done \/ rr.panic
                                     \/ r.idx >= Len(node1.keys)
                                  THEN {}
                                  ELSE {RepairCall(rr,
                                            node1.children[r.idx + 2])}))

\* C36: in every remove the map can be asked for, each of
\* replace_from_left, replace_from_right, rotate_from_left and
\* rotate_from_right takes a key from its child or sibling only if that
\* node holds strictly more than MIN_KEYS keys, so that the donor keeps at
\* least MIN_KEYS keys
C36_DonorsHoldMoreThanMin ==
    (~map_panicked /\ Searchable(root)) =>
        \A key \in RemKeys :
            \A call \in RepairCalls(root, key) :
                call.done => Len(call.donor.keys) > MIN_KEYS

\* C37: after every insert or remove every node has as many values as keys
\* and every internal node has exactly one more child than it has keys,
\* also after a key was removed in place from an internal node
C37_NodeShape ==
    ~map_panicked =>
        \A n \in Nodes(root) :
            /\ Len(n.values) = Len(n.keys)
            /\ ~is_leaf(n) => Len(n.children) = Len(n.keys) + 1

\* ------------------------------------------------------------------------
\* Heap: objects of the pool
\* ------------------------------------------------------------------------

\* Every Object<S> of the chunks of taken, the chunks the pool took from
\* the chunk allocator
PoolObjs(taken) ==
    {obj_add(taken[i], j) :
        i \in DOMAIN taken, j \in 0..(objs_per_chunk - 1)}

RECURSIVE FreeChainFrom(_, _, _, _, _)
\* Following next_free from head in mem ends in None within n links, meets
\* no object twice and meets only objects of free
FreeChainFrom(mem, free, head, n, seen) ==
    IF head = NoPtr THEN TRUE
    ELSE IF n = 0 \/ head \in seen \/ head \notin free
    THEN FALSE
    ELSE FreeChainFrom(mem, free, read(mem, head), n - 1, seen \cup {head})

\* The chain of next_free links that starts at head is a list of objects
\* of the pool that are not handed out
FreeChain(mem, taken, out, head) ==
    FreeChainFrom(mem, PoolObjs(taken) \ out, head,
                  Len(taken) * objs_per_chunk, {})

\* No object of the pool is both handed out and a link: the objects handed
\* out are objects of the pool, the freelist and the chain of every object
\* that is not handed out are lists of objects that are not handed out
LiveXorLink(mem, taken, out, obj_list) ==
    /\ out \subseteq PoolObjs(taken)
    /\ FreeChain(mem, taken, out, obj_list)
    /\ \A obj \in PoolObjs(taken) \ out : FreeChain(mem, taken, out, obj)

\* ObjectPool::alloc returned in this step
PoolAllocReturns ==
    /\ pool_calls' = pool_calls + 1
    /\ pool_last'.op = "alloc"
    /\ ~heap_panicked'

SliceAligned(slice) == slice.ptr % slice.ty.align = 0

\* Every byte of the slice is a byte of buf
SliceInside(slice, buf) ==
    /\ ~slice_too_large(slice.len, slice.ty)
    /\ slice.ptr >= buf.start
    /\ slice.ptr + slice.len * slice.ty.size <= buf.start + buf.len

\* The two slices share no byte
SlicesDisjoint(s1, s2) ==
    \/ s1.len = 0
    \/ s2.len = 0
    \/ /\ ~slice_too_large(s1.len, s1.ty)
       /\ ~slice_too_large(s2.len, s2.ty)
       /\ \/ s1.ptr + s1.len * s1.ty.size <= s2.ptr
          \/ s2.ptr + s2.len * s2.ty.size <= s1.ptr

\* Every slice of the pass is aligned, inside the buffer and disjoint from
\* the slices returned before it
SlicesSound(pass) ==
    \A i \in DOMAIN pass.slices :
        /\ SliceAligned(pass.slices[i])
        /\ SliceInside(pass.slices[i], pass.buf)
        /\ \A j \in 1..(i - 1) :
              SlicesDisjoint(pass.slices[j], pass.slices[i])

\* C39: for every sequence of alloc_slice calls on one buffer, each
\* returned slice starts at an address aligned for its element type, lies
\* entirely inside the buffer and overlaps no slice returned earlier, and
\* no call decreases the bump pointer
C39_SlicesSoundPointerMonotone ==
    [][(bump_pass.kind = "actual" /\ bump_pass'.done = bump_pass.done + 1) =>
          /\ SlicesSound(bump_pass')
          /\ ule(bump.ptr, bump'.ptr)]_vars

\* The slice of len elements of ty at the aligned bump pointer lies inside
\* the buffer of the pass
RequestFits(b, pass, ty, len) ==
    SliceInside([ptr |-> align_ptr(b.ptr, ty), ty |-> ty, len |-> len],
                pass.buf)

\* C40: alloc_slice panics if and only if the aligned slice does not fit in
\* the buffer, so a slice whose last byte is the last byte of the buffer is
\* returned, and alloc_slice_mock panics on exactly the same requests
C40_PanicsIffSliceDoesNotFit ==
    [][/\ (bump_pass.kind = "actual" /\ bump_pass'.done = bump_pass.done + 1) =>
            LET req == bump_pass.reqs[bump_pass'.done]
            IN  bump_pass'.panicked
                    <=> ~RequestFits(bump, bump_pass, req.ty, req.len)
       /\ (bump_pass.kind = "mock"
               /\ Len(bump_pass'.reqs) = Len(bump_pass.reqs) + 1) =>
            LET req == bump_pass'.reqs[Len(bump_pass'.reqs)]
            IN  bump_pass'.panicked
                    <=> ~RequestFits(bump, bump_pass, req.ty, req.len)]_vars
====
